---- MODULE Spec2Model ----
(***************************************************************************)
(* State-machine model of cfloader-rs: the bootloader link (bllink.rs),    *)
(* the bootloader command layer (bootloader.rs), the packet codecs         *)
(* (packets.rs) and the flashing / reading engines (cfloader.rs), run      *)
(* against a model of the radio and of the device behind it.               *)
(*                                                                         *)
(* Time is counted in ticks: every call of the radio primitive (and the    *)
(* 1 ms sleep that follows it) advances the running attempt's elapsed time *)
(* by at least one tick; the code only ever compares elapsed < timeout.    *)
(***************************************************************************)
EXTENDS Integers, Sequences, FiniteSets, TLC

VARIABLES
    link,    \* the Bllink operation in progress: locals of request / try_request / ...
    bl,      \* the Bootloader command in progress and its result
    eng,     \* the CFLoader operation in progress (flash_image_internal / read_flash)
    dev,     \* the device behind the radio: pending responses, RAM buffer, flash
    info,    \* CFLoader.nrf51_info / stm32_info: the cached info records
    env,     \* what the radio and the device may do in this run
    opSeq,   \* number of Bootloader commands issued so far (history)
    hist     \* history of the running link operation (what the radio did)

vars == <<link, bl, eng, dev, info, env, opSeq, hist>>

----------------------------------------------------------------------------
(* Program constants *)

MAX_RETRIES == 10
CMD_GET_INFO == 16
CMD_LOAD_BUFFER == 20
CMD_READ_BUFFER == 21
CMD_WRITE_FLASH == 24
CMD_FLASH_STATUS == 25
CMD_READ_FLASH == 28
CMD_RESET_INIT == 255
CMD_RESET == 240
CMD_ALLOFF == 1
CMD_SYSOFF == 2
CMD_SYSON == 3
CMD_GETVBAT == 4
TARGET_STM32 == 255
TARGET_NRF51 == 254
LOAD_BUFFER_MAX == 25
MAX_READ_SIZE == 27
MAX_LOAD_SIZE == 25
WRITE_FLASH_MATCH == 3
INFO_MIN_LEN == 22
VBAT_MIN_LEN == 4

(* Bounds of the model *)

ShortTicks == 2      \* SHORT_TIMEOUT, in ticks
MaxOps == 2          \* Bootloader commands a client issues in one run
MaxQueue == 1        \* responses the device can hold pending
MaxImageLen == 5     \* longest image flashed
PageSize == 2        \* page_size the device reports
NBuffPage == 2       \* n_buff_page the device reports
NFlashPage == 4      \* n_flash_page the device reports
FlashStart == 1      \* flash_start the device reports
DevReadMax == 2      \* most data bytes the device puts in one read response
LongPage == 26       \* page_size of a device whose pages need several loads
MaxErrorCode == 4    \* largest error code a failing device answers with
MaxMatchLength == 4  \* largest match_length a caller of the link passes
MaxCut == 5          \* longest length a response may arrive cut to
MaxWrites == 3       \* write_flash commands of one flash kept as history
MaxPacketData == 28  \* most data bytes of a read response of a generous device

SendTicks == ShortTicks          \* the 1000 ms of Bllink::send
FlashTicks == ShortTicks + 1     \* FLASH_TIMEOUT: longer than SHORT_TIMEOUT

Targets == {TARGET_STM32, TARGET_NRF51}
Filler == <<255>>

Min(a, b) == IF a < b THEN a ELSE b

----------------------------------------------------------------------------
(* Byte helpers and packet codecs *)

to_le_bytes(x) == <<x % 256, (x \div 256) % 256>>

from_le_bytes(b0, b1) == b0 + 256 * b1

\* &s[n..]
SliceFrom(s, n) == SubSeq(s, n + 1, Len(s))

\* &s[..n]
SliceTo(s, n) == SubSeq(s, 1, n)

\* a weaker test than starts_with: the first three bytes only
StartsWithShort(answer, data) ==
    Len(answer) >= WRITE_FLASH_MATCH
    /\ SliceTo(answer, WRITE_FLASH_MATCH) = SliceTo(data, WRITE_FLASH_MATCH)

\* answer.starts_with(data)
StartsWith(answer, data) ==
    Len(answer) >= Len(data) /\ SliceTo(answer, Len(data)) = data

\* a weaker test: one byte less than match_length is compared
PrefixMatchesOffByOne(answer, data, match_length) ==
    ~(Len(answer) < match_length - 1
      \/ SliceTo(answer, match_length - 1) # SliceTo(data, match_length - 1))

\* !(answer.len() < match_length || !answer[..match_length].eq(match_data))
PrefixMatches(answer, data, match_length) ==
    ~(Len(answer) < match_length
      \/ SliceTo(answer, match_length) # SliceTo(data, match_length))

\* an InfoPacket that holds nothing yet
NoInfoPacket ==
    [page_size |-> 0, n_buff_page |-> 0, n_flash_page |-> 0, flash_start |-> 0,
     cpu_id |-> [i \in 1..12 |-> 0], version |-> 0]

\* FlashWriteResponse::from_bytes: bytes is response[2..]; aborts below 3 bytes
FlashWriteResponse_from_bytes(bytes) ==
    IF Len(bytes) < 3
    THEN [panic |-> TRUE, done |-> 0, error |-> 0]
    ELSE [panic |-> FALSE, done |-> bytes[2], error |-> bytes[3]]

\* FlashReadPacket::from_bytes: bytes is response[2..]; aborts below 5 bytes
FlashReadPacket_from_bytes(bytes) ==
    IF Len(bytes) < 5
    THEN [panic |-> TRUE, page |-> 0, address |-> 0, data |-> <<>>]
    ELSE [panic |-> FALSE,
          page |-> from_le_bytes(bytes[2], bytes[3]),
          address |-> from_le_bytes(bytes[4], bytes[5]),
          data |-> SliceFrom(bytes, 5)]

\* BufferReadPacket::from_bytes: bytes is response[2..]; aborts below 5 bytes
BufferReadPacket_from_bytes(bytes) ==
    IF Len(bytes) < 5
    THEN [panic |-> TRUE, page |-> 0, address |-> 0, data |-> <<>>]
    ELSE [panic |-> FALSE,
          page |-> from_le_bytes(bytes[2], bytes[3]),
          address |-> from_le_bytes(bytes[4], bytes[5]),
          data |-> SliceFrom(bytes, 5)]

\* a decoder that reads n_buff_page and n_flash_page from each other's bytes
InfoPacket_from_bytes_swapped(bytes) ==
    IF Len(bytes) < INFO_MIN_LEN
    THEN [panic |-> TRUE, packet |-> NoInfoPacket]
    ELSE [panic |-> FALSE,
          packet |-> [page_size |-> from_le_bytes(bytes[2], bytes[3]),
                      n_buff_page |-> from_le_bytes(bytes[6], bytes[7]),
                      n_flash_page |-> from_le_bytes(bytes[4], bytes[5]),
                      flash_start |-> from_le_bytes(bytes[8], bytes[9]),
                      cpu_id |-> SubSeq(bytes, 10, 21),
                      version |-> bytes[22]]]

\* InfoPacket::from_bytes: bytes is response[2..]; aborts below 22 bytes
InfoPacket_from_bytes(bytes) ==
    IF Len(bytes) < INFO_MIN_LEN
    THEN [panic |-> TRUE, packet |-> NoInfoPacket]
    ELSE [panic |-> FALSE,
          packet |-> [page_size |-> from_le_bytes(bytes[2], bytes[3]),
                      n_buff_page |-> from_le_bytes(bytes[4], bytes[5]),
                      n_flash_page |-> from_le_bytes(bytes[6], bytes[7]),
                      flash_start |-> from_le_bytes(bytes[8], bytes[9]),
                      cpu_id |-> SubSeq(bytes, 10, 21),
                      version |-> bytes[22]]]

\* f32::from_le_bytes, as the bit pattern of the value: its four bytes,
\* the most significant first
f32_from_le_bytes(b0, b1, b2, b3) == <<b3, b2, b1, b0>>

\* a conversion that keeps unknown codes
FlashError_from_strict(value) == value

\* FlashError::from(u8), as the numeric code of the variant
FlashError_from(value) == IF value \in {0, 1, 2, 3} THEN value ELSE 0

\* a success test that looks at done only
is_success_when_done(r) == r.done # 0

\* FlashWriteResponse::is_success
is_success(r) == r.done # 0 /\ FlashError_from(r.error) = 0

----------------------------------------------------------------------------
(* Command frames built by the Bootloader methods *)

write_flash_command(target, buffer_page, flash_page, n_pages) ==
    <<255, target, CMD_WRITE_FLASH>> \o to_le_bytes(buffer_page)
        \o to_le_bytes(flash_page) \o to_le_bytes(n_pages)

flash_status_command(target) == <<255, target, CMD_FLASH_STATUS>>

get_info_command(target) == <<255, target, CMD_GET_INFO>>

get_vbat_command(target) == <<255, target, CMD_GETVBAT>>

\* the frame of reset, all_off, sys_off, sys_on: vec![0xff, self.target, cmd]
bare_command(target, cmd) == <<255, target, cmd>>

read_buffer_command(target, page, address) ==
    <<255, target, CMD_READ_BUFFER>> \o to_le_bytes(page) \o to_le_bytes(address)

read_flash_command(target, page, address) ==
    <<255, target, CMD_READ_FLASH>> \o to_le_bytes(page) \o to_le_bytes(address)

\* a frame with the address before the page
load_buffer_command_swapped(target, page, address, data) ==
    <<255, target, CMD_LOAD_BUFFER>> \o to_le_bytes(address)
        \o to_le_bytes(page) \o data

load_buffer_command(target, page, address, data) ==
    <<255, target, CMD_LOAD_BUFFER>> \o to_le_bytes(page)
        \o to_le_bytes(address) \o data

----------------------------------------------------------------------------
(* The device behind the radio.  It is not part of the repository: it is   *)
(* the peer that the doc comments of the Bootloader methods describe       *)
(* (RAM buffer organised by pages, write_flash copying buffer pages to     *)
(* flash, read_flash returning a chunk of flash, responses echoing         *)
(* [0xFF, target, cmd]).                                                   *)

DevInfo == [page_size |-> PageSize, n_buff_page |-> NBuffPage,
            n_flash_page |-> NFlashPage, flash_start |-> FlashStart,
            cpu_id |-> [i \in 1..12 |-> 0], version |-> 16]

\* a device whose pages take more than one load_buffer to fill
LongPageInfo == [DevInfo EXCEPT !.page_size = LongPage]

\* bytes of RAM buffer and of flash of a device with info record g
BufCapOf(g) == g.page_size * g.n_buff_page

FlashCapOf(g) == g.page_size * g.n_flash_page

BufCap == BufCapOf(DevInfo)

FlashCap == FlashCapOf(DevInfo)

\* a response the device holds pending; origin is the Bootloader command
\* (number in the run, method, target) the device produced it for
Resp(bytes, origin) == [bytes |-> bytes, origin |-> origin]

Enqueue(d, r) ==
    IF Len(d.q) < MaxQueue THEN [d EXCEPT !.q = Append(@, r)] ELSE d

\* the load_buffer command: data goes to the RAM buffer at (page, address)
DevLoadBuffer(d, p) ==
    LET t == p[2]
        page == from_le_bytes(p[4], p[5])
        address == from_le_bytes(p[6], p[7])
        data == SliceFrom(p, 7)
        g == d.geo[t]
        base == page * g.page_size + address
    IN  [d EXCEPT !.buf[t] =
            [a \in 0..(BufCapOf(g) - 1) |->
                IF a >= base /\ a < base + Len(data) /\ page < g.n_buff_page
                   /\ address + Len(data) <= g.page_size
                THEN data[a - base + 1] ELSE @[a]]]

\* the write_flash command: n_pages buffer pages are copied to flash, and
\* the response carries (done, error) = (1, 0); a command out of bounds is
\* answered with error 1; a device whose flash fails answers with one of
\* the other results the run allows, and leaves flash as it was
DevWriteFlash(d, p, origin, results) ==
    LET t == p[2]
        buffer_page == from_le_bytes(p[4], p[5])
        flash_page == from_le_bytes(p[6], p[7])
        n_pages == from_le_bytes(p[8], p[9])
        g == d.geo[t]
        inBounds == /\ flash_page >= g.flash_start
                    /\ flash_page + n_pages <= g.n_flash_page
                    /\ buffer_page + n_pages <= g.n_buff_page
        lo == flash_page * g.page_size
        hi == lo + n_pages * g.page_size
        written == [d EXCEPT !.flash[t] =
                      [a \in 0..(FlashCapOf(g) - 1) |->
                          IF a >= lo /\ a < hi
                          THEN d.buf[t][buffer_page * g.page_size + (a - lo)]
                          ELSE @[a]]]
        answer(r) == Resp(<<255, t, CMD_WRITE_FLASH, r[1], r[2]>>, origin)
    IN  IF inBounds
        THEN {Enqueue(IF r = <<1, 0>> THEN written ELSE d, answer(r)) :
                 r \in results}
        ELSE {Enqueue(d, answer(<<1, 1>>))}

\* the flash_status command
DevFlashStatus(d, p, origin) ==
    Enqueue(d, Resp(<<255, p[2], CMD_FLASH_STATUS, 1, 0>>, origin))

\* the get_info command: the info record the device reports, laid out as
\* the comment at the head of packets.rs gives it
InfoBytes(t, r) ==
    <<255, t, CMD_GET_INFO>> \o to_le_bytes(r.page_size)
        \o to_le_bytes(r.n_buff_page) \o to_le_bytes(r.n_flash_page)
        \o to_le_bytes(r.flash_start) \o r.cpu_id \o <<r.version>>

DevGetInfo(d, p, origin) ==
    Enqueue(d, Resp(InfoBytes(p[2], d.report[p[2]]), origin))

\* the get_vbat command: the echo and the four bytes of an f32
VbatBytes == <<1, 2, 128, 64>>

DevGetVbat(d, p, origin) ==
    Enqueue(d, Resp(<<255, p[2], CMD_GETVBAT>> \o VbatBytes, origin))

\* the read_flash command: n data bytes of flash from (page, address)
DevReadFlash(d, p, origin, n) ==
    LET t == p[2]
        page == from_le_bytes(p[4], p[5])
        address == from_le_bytes(p[6], p[7])
        g == d.geo[t]
        base == page * g.page_size + address
        avail == IF base < FlashCapOf(g) THEN Min(n, FlashCapOf(g) - base) ELSE 0
        data == [i \in 1..avail |-> d.flash[t][base + i - 1]]
    IN  Enqueue(d, Resp(<<255, t, CMD_READ_FLASH>> \o SliceFrom(p, 3) \o data, origin))

\* the read_buffer command: n data bytes of the RAM buffer from
\* (page, address)
DevReadBuffer(d, p, origin, n) ==
    LET t == p[2]
        page == from_le_bytes(p[4], p[5])
        address == from_le_bytes(p[6], p[7])
        g == d.geo[t]
        base == page * g.page_size + address
        avail == IF base < BufCapOf(g) THEN Min(n, BufCapOf(g) - base) ELSE 0
        data == [i \in 1..avail |-> d.buf[t][base + i - 1]]
    IN  Enqueue(d, Resp(<<255, t, CMD_READ_BUFFER>> \o SliceFrom(p, 3) \o data, origin))

\* the states the device can be in after receiving payload p
DevReceive(d, p, origin, e) ==
    IF Len(p) < 3 \/ p[1] # 255 \/ p[2] \notin Targets THEN {d}
    ELSE IF p[3] = CMD_LOAD_BUFFER /\ Len(p) >= 7 THEN {DevLoadBuffer(d, p)}
    ELSE IF p[3] = CMD_WRITE_FLASH /\ Len(p) = 9
         THEN DevWriteFlash(d, p, origin, e.writeResults)
    ELSE IF p[3] = CMD_FLASH_STATUS THEN {DevFlashStatus(d, p, origin)}
    ELSE IF p[3] = CMD_GET_INFO /\ Len(p) = 3 THEN {DevGetInfo(d, p, origin)}
    ELSE IF p[3] = CMD_GETVBAT /\ Len(p) = 3 THEN {DevGetVbat(d, p, origin)}
    ELSE IF p[3] = CMD_READ_FLASH /\ Len(p) = 7
         THEN {DevReadFlash(d, p, origin, n) : n \in e.readLens}
    ELSE IF p[3] = CMD_READ_BUFFER /\ Len(p) = 7
         THEN {DevReadBuffer(d, p, origin, n) : n \in e.readLens}
    ELSE {d}

NoOrigin == [n |-> 0, op |-> "none", target |-> 0]

NoResp == Resp(<<>>, NoOrigin)

(* send_packet_async(channel, address, payload): what one call of the      *)
(* radio primitive can return, and the device state it leaves.             *)
(*   - the radio itself fails (Err);                                       *)
(*   - the packet is lost: no ACK, the device saw nothing;                 *)
(*   - the device receives the packet and ACKs with either an empty        *)
(*     payload (nothing pending, or nothing loaded in time) or its oldest  *)
(*     pending response; the ACK reaches the host or is lost with its      *)
(*     payload;                                                            *)
(*   - a response may arrive cut to one of the lengths e.cuts.             *)
(* rx tells whether the device received the packet.                        *)
Deliveries(r, e) ==
    {r} \cup {[r EXCEPT !.bytes = SliceTo(@, n)] :
                 n \in {k \in e.cuts : k < Len(r.bytes)}}

RadioOutcomes(d, payload, origin, e) ==
    LET received == DevReceive(d, payload, origin, e)
        acks(d1) ==
            (IF d1.q = <<>> \/ e.delay
             THEN {[err |-> FALSE, ack |-> TRUE, rx |-> TRUE, resp |-> NoResp,
                    dev |-> d1]}
             ELSE {})
            \cup (IF d1.q # <<>>
                  THEN {[err |-> FALSE, ack |-> TRUE, rx |-> TRUE, resp |-> r,
                         dev |-> [d1 EXCEPT !.q = Tail(@)]] :
                           r \in Deliveries(Head(d1.q), e)}
                  ELSE {})
        delivered == UNION {acks(d1) : d1 \in received}
        ackLost == {[o EXCEPT !.ack = FALSE, !.resp = NoResp] : o \in delivered}
        faults == {[err |-> TRUE, ack |-> FALSE, rx |-> FALSE, resp |-> NoResp,
                    dev |-> d],
                   [err |-> FALSE, ack |-> FALSE, rx |-> FALSE, resp |-> NoResp,
                    dev |-> d]}
                  \cup ackLost
    IN  IF e.lossy THEN delivered \cup faults ELSE delivered

----------------------------------------------------------------------------
(* Bllink (bllink.rs) *)

IdleLink ==
    [kind |-> "none", data |-> <<>>, match_length |-> 0, timeout |-> 0,
     pc |-> "idle", attempt |-> 0, elapsed |-> 0, answer |-> <<>>,
     got_initial_ack |-> FALSE, ok |-> FALSE, err |-> "none"]

NoHist ==
    [tries |-> 0, acked |-> FALSE, radioErr |-> FALSE, errInTry |-> FALSE,
     callAfterErr |-> FALSE, allExpired |-> TRUE, dataTx |-> 0,
     seenStatus |-> FALSE, seenMismatch |-> FALSE, answerOrigin |-> NoOrigin,
     called |-> FALSE, dataAfterAck |-> FALSE,
     validAcked |-> FALSE, validBytes |-> <<>>, viaPoll |-> FALSE,
     frames |-> <<>>, ackedFrames |-> {}, lastAcked |-> <<>>,
     dataAcks |-> 0, dataRx |-> 0]

\* Bllink::send / request / request_match_response are entered: the retry
\* loop starts at attempt 0
LinkCall(kind, data, match_length, timeout) ==
    [IdleLink EXCEPT !.kind = kind, !.data = data, !.match_length = match_length,
                     !.timeout = timeout, !.pc = "start"]

\* a return that drops the response
LinkOkEmpty(l) == [l EXCEPT !.pc = "ret", !.ok = TRUE, !.answer = <<>>]

\* return Ok(..) out of the retry loop
LinkOk(l) == [l EXCEPT !.pc = "ret", !.ok = TRUE]

\* a retry loop that gives up one attempt early
RetryOrFailEarly(l, e) ==
    IF l.attempt >= MAX_RETRIES - 2
    THEN [l EXCEPT !.pc = "ret", !.ok = FALSE, !.err = e]
    ELSE [l EXCEPT !.pc = "start", !.attempt = @ + 1]

\* the Err arm of the retry loop in request / request_match_response /
\* send_with_timeout: give up at the last attempt, else go round again
RetryOrFail(l, e) ==
    IF l.attempt = MAX_RETRIES - 1
    THEN [l EXCEPT !.pc = "ret", !.ok = FALSE, !.err = e]
    ELSE [l EXCEPT !.pc = "start", !.attempt = @ + 1]

\* a link that ignores a radio error and carries on in the attempt
OnRadioErrorIgnored(l) == l

\* send_packet_async(..).await.map_err(..)? : a radio error leaves try_*
\* with Err at once
OnRadioError(l) == RetryOrFail(l, "RadioError")

\* the prefix predicate of the polling loop and of the final check
ResponseValid(l) ==
    IF l.kind = "request"
    THEN StartsWith(l.answer, l.data)
    ELSE PrefixMatches(l.answer, l.data, l.match_length)

\* elapsed time after one more radio call: the call and the sleep after it
\* take one tick, or (slow) all that is left of the window; only
\* elapsed < timeout is ever read
Advance(l, slow) == [l EXCEPT !.elapsed = IF slow THEN l.timeout ELSE @ + 1]

\* a frame of this link operation's command and target whose page / address
\* echo differs from the request's
IsMismatch(l, bytes) ==
    /\ Len(l.data) = 7 /\ Len(bytes) >= 7
    /\ SliceTo(bytes, 3) = SliceTo(l.data, 3)
    /\ SliceTo(bytes, 7) # l.data

IsStatusFrame(l, bytes) ==
    /\ Len(bytes) >= 3
    /\ bytes[1] = 255 /\ bytes[2] = l.data[2] /\ bytes[3] = CMD_FLASH_STATUS

\* the Bootloader command whose link operation is running
Origin == [n |-> opSeq, op |-> bl.op, target |-> bl.target]

\* the ACK of outcome o carries a response that satisfies the prefix
\* predicate of link operation l
DeliversValid(l, o) ==
    /\ o.ack /\ l.kind \in {"request", "match"}
    /\ ResponseValid([l EXCEPT !.answer = o.resp.bytes])

\* a count kept up to one above MAX_RETRIES, in the runs that keep counts
Counted(n, event) ==
    IF env.census /\ event THEN Min(n + 1, MAX_RETRIES + 1) ELSE n

\* history after the radio call with outcome o made while in state l;
\* isData: the packet carried the request payload; frames: the command
\* frames handed to the radio, in the order of their first transmission;
\* lastAcked: the payload of the last ACKed radio call of the running
\* attempt of a request; dataAcks, dataRx: how many transmissions of the
\* request payload were ACKed, and how many the device received
HistAfter(h, l, o, isData) ==
    [h EXCEPT !.called = TRUE,
              !.dataAfterAck = @ \/ (isData /\ l.got_initial_ack),
              !.frames = IF isData /\ (@ = <<>> \/ @[Len(@)] # l.data)
                         THEN Append(@, l.data) ELSE @,
              !.ackedFrames = IF isData /\ o.ack THEN @ \cup {l.data} ELSE @,
              !.lastAcked = IF o.ack /\ l.kind # "send" THEN o.resp.bytes ELSE @,
              !.dataAcks = Counted(@, isData /\ o.ack),
              !.dataRx = Counted(@, isData /\ o.rx),
              !.validAcked = @ \/ DeliversValid(l, o),
              !.validBytes = IF DeliversValid(l, o) THEN o.resp.bytes ELSE @,
              !.viaPoll = IF DeliversValid(l, o) THEN ~isData ELSE @,
              !.acked = @ \/ o.ack,
              !.callAfterErr = @ \/ h.radioErr,
              !.radioErr = @ \/ o.err,
              !.errInTry = @ \/ o.err,
              !.dataTx = IF isData THEN Min(@ + 1, 2) ELSE @,
              !.seenStatus = @ \/ (o.ack /\ IsStatusFrame(l, o.resp.bytes)),
              !.seenMismatch = @ \/ (o.ack /\ IsMismatch(l, o.resp.bytes)),
              !.answerOrigin = IF o.ack /\ l.kind # "send" THEN o.resp.origin ELSE @]

\* history after try_* returned Err without a radio call
HistFailed(h, l) ==
    [h EXCEPT !.allExpired = @ /\ l.elapsed >= l.timeout]

\* a validation that lets every match_length through
MatchLengthTooLongNever(l) == FALSE

\* if match_length > data.len() { return Err(..) } of
\* try_request_match_response
MatchLengthTooLong(l) == l.kind = "match" /\ l.match_length > Len(l.data)

\* entry of try_send / try_request / try_request_match_response:
\* start_time = now, answer = [], got_initial_ack = false, and the
\* match_length validation of try_request_match_response
TryStart ==
    /\ link.pc = "start"
    /\ hist' = [hist EXCEPT !.tries = @ + 1, !.errInTry = FALSE,
                            !.validAcked = FALSE, !.validBytes = <<>>,
                            !.viaPoll = FALSE, !.lastAcked = <<>>]
    /\ IF MatchLengthTooLong(link)
       THEN link' = RetryOrFail(link, "InvalidMatchLength")
       ELSE link' = [link EXCEPT !.pc = "send", !.elapsed = 0, !.answer = <<>>,
                                 !.got_initial_ack = FALSE]
    /\ UNCHANGED <<bl, eng, dev, info, env, opSeq>>

\* one round of the loop of try_send
try_send ==
    /\ link.pc = "send" /\ link.kind = "send"
    /\ IF link.elapsed < link.timeout
       THEN \E o \in RadioOutcomes(dev, link.data, Origin, env),
               d \in BOOLEAN :
               /\ dev' = o.dev
               /\ hist' = HistAfter(hist, link, o, TRUE)
               /\ link' = IF o.err THEN OnRadioError(link)
                          ELSE IF o.ack THEN LinkOk(link)
                          ELSE Advance(link, d)
       ELSE /\ link' = RetryOrFail(link, "NoAck")
            /\ hist' = HistFailed(hist, link)
            /\ dev' = dev
    /\ UNCHANGED <<bl, eng, info, env, opSeq>>

\* one round of the first loop of try_request / try_request_match_response:
\* send the request until it is ACKed
SendRequestRound ==
    /\ link.pc = "send" /\ link.kind \in {"request", "match"}
    /\ IF link.elapsed < link.timeout /\ ~link.got_initial_ack
       THEN \E o \in RadioOutcomes(dev, link.data, Origin, env),
               d \in BOOLEAN :
               /\ dev' = o.dev
               /\ hist' = HistAfter(hist, link, o, TRUE)
               /\ link' = IF o.err THEN OnRadioError(link)
                          ELSE IF o.ack
                          THEN [Advance(link, d) EXCEPT !.got_initial_ack = TRUE,
                                                        !.answer = o.resp.bytes,
                                                        !.pc = "poll"]
                          ELSE Advance(link, d)
       ELSE /\ link' = RetryOrFail(link, "NoAck")
            /\ hist' = HistFailed(hist, link)
            /\ dev' = dev
    /\ UNCHANGED <<bl, eng, info, env, opSeq>>

\* a polling loop that sends the request payload again
PollPayloadRequest(l) == l.data

\* the payload of the polling loop: vec![0xff]
PollPayload(l) == Filler

\* a polling loop that goes on until the window is over
StillWaitingUntilTimeout(l) == l.elapsed < l.timeout

\* the condition of the polling loop: the window is open and the candidate
\* answer is not valid
StillWaiting(l) == l.elapsed < l.timeout /\ ~ResponseValid(l)

\* a poll that keeps the candidate when the ACK carries no payload
PollAnswerUnlessEmpty(answer, received, new_answer) ==
    IF received /\ new_answer # <<>> THEN new_answer ELSE answer

\* if new_ack.received { answer = new_answer; }
PollAnswer(answer, received, new_answer) ==
    IF received THEN new_answer ELSE answer

\* one round of the second loop: poll with the filler until the candidate
\* answer is valid or the window is over, then the final check
PollRound ==
    /\ link.pc = "poll"
    /\ IF StillWaiting(link)
       THEN \E o \in RadioOutcomes(dev, PollPayload(link), Origin, env),
               d \in BOOLEAN :
               /\ dev' = o.dev
               /\ hist' = HistAfter(hist, link, o, PollPayload(link) = link.data)
               /\ link' = IF o.err THEN OnRadioError(link)
                          ELSE [Advance(link, d) EXCEPT
                                   !.answer = PollAnswer(@, o.ack, o.resp.bytes)]
       ELSE /\ link' = IF ~ResponseValid(link)
                       THEN RetryOrFail(link, "NoValidResponse")
                       ELSE LinkOk(link)
            /\ hist' = IF ~ResponseValid(link) THEN HistFailed(hist, link) ELSE hist
            /\ dev' = dev
    /\ UNCHANGED <<bl, eng, info, env, opSeq>>

try_request == link.kind = "request" /\ (SendRequestRound \/ PollRound)

try_request_match_response == link.kind = "match" /\ (SendRequestRound \/ PollRound)

----------------------------------------------------------------------------
(* Bootloader (bootloader.rs) *)

IdleBl ==
    [op |-> "none", target |-> 0, page |-> 0, address |-> 0, pc |-> "idle",
     res |-> "none", err |-> "none", done |-> 0, error |-> 0, data |-> <<>>,
     arg |-> <<>>, info |-> NoInfoPacket, vbat |-> <<>>]

BlErr(b, e) == [b EXCEPT !.pc = "ret", !.res = "err", !.err = e]

BlPanic(b) == [b EXCEPT !.pc = "ret", !.res = "panic"]

\* a Bootloader method hands its command to the link and awaits the result
BlIssue(op, target, page, address, l) ==
    /\ bl' = [IdleBl EXCEPT !.op = op, !.target = target, !.page = page,
                            !.address = address, !.pc = "call"]
    /\ link' = l
    /\ opSeq' = opSeq + 1
    /\ hist' = NoHist

\* a write_flash that matches two bytes of the response only
write_flash_call_match2(target, buffer_page, flash_page, n_pages) ==
    BlIssue("write_flash", target, flash_page, 0,
            LinkCall("match",
                     write_flash_command(target, buffer_page, flash_page, n_pages),
                     WRITE_FLASH_MATCH - 1, FlashTicks))

\* Bootloader::write_flash up to the await of request_match_response
write_flash_call(target, buffer_page, flash_page, n_pages) ==
    BlIssue("write_flash", target, flash_page, 0,
            LinkCall("match",
                     write_flash_command(target, buffer_page, flash_page, n_pages),
                     WRITE_FLASH_MATCH, FlashTicks))

\* Bootloader::write_flash after the await
write_flash_return ==
    /\ bl.pc = "call" /\ bl.op = "write_flash" /\ link.pc = "ret"
    /\ bl' = IF ~link.ok THEN BlErr(bl, link.err)
             ELSE LET r == FlashWriteResponse_from_bytes(SliceFrom(link.answer, 2))
                  IN  IF r.panic THEN BlPanic(bl)
                      ELSE [bl EXCEPT !.pc = "ret", !.res = "ok",
                                      !.done = r.done, !.error = r.error]
    /\ UNCHANGED <<link, eng, dev, info, env, opSeq, hist>>

\* Bootloader::flash_status
flash_status_call(target) ==
    BlIssue("flash_status", target, 0, 0,
            LinkCall("request", flash_status_command(target), 0, ShortTicks))

flash_status_return ==
    /\ bl.pc = "call" /\ bl.op = "flash_status" /\ link.pc = "ret"
    /\ bl' = IF ~link.ok THEN BlErr(bl, link.err)
             ELSE LET r == FlashWriteResponse_from_bytes(SliceFrom(link.answer, 2))
                  IN  IF r.panic THEN BlPanic(bl)
                      ELSE [bl EXCEPT !.pc = "ret", !.res = "ok",
                                      !.done = r.done, !.error = r.error]
    /\ UNCHANGED <<link, eng, dev, info, env, opSeq, hist>>

\* Bootloader::read_flash up to the await of request
read_flash_call(target, page, address) ==
    BlIssue("read_flash", target, page, address,
            LinkCall("request", read_flash_command(target, page, address),
                     0, ShortTicks))

\* Bootloader::read_flash after the await: length check, decoding and the
\* stale-packet validation
ReadFlashResult(b, response) ==
    LET flash_packet == FlashReadPacket_from_bytes(SliceFrom(response, 2))
    IN  IF Len(response) < 2 THEN BlErr(b, "ResponseTooShort")
        ELSE IF flash_packet.panic THEN BlPanic(b)
        ELSE IF flash_packet.page # b.page \/ flash_packet.address # b.address
        THEN BlErr(b, "StalePacket")
        ELSE [b EXCEPT !.pc = "ret", !.res = "ok", !.data = flash_packet.data]

read_flash_return ==
    /\ bl.pc = "call" /\ bl.op = "read_flash" /\ link.pc = "ret"
    /\ bl' = IF ~link.ok THEN BlErr(bl, link.err)
             ELSE ReadFlashResult(bl, link.answer)
    /\ UNCHANGED <<link, eng, dev, info, env, opSeq, hist>>

\* Bootloader::read_buffer up to the await of request
read_buffer_call(target, page, address) ==
    BlIssue("read_buffer", target, page, address,
            LinkCall("request", read_buffer_command(target, page, address),
                     0, ShortTicks))

\* Bootloader::read_buffer after the await: &response[2..], which aborts
\* when the response has fewer than 2 bytes, and the decoding
ReadBufferResult(b, response) ==
    LET buffer_packet == BufferReadPacket_from_bytes(SliceFrom(response, 2))
    IN  IF Len(response) < 2 \/ buffer_packet.panic THEN BlPanic(b)
        ELSE [b EXCEPT !.pc = "ret", !.res = "ok",
                       !.page = buffer_packet.page,
                       !.address = buffer_packet.address,
                       !.data = buffer_packet.data]

read_buffer_return ==
    /\ bl.pc = "call" /\ bl.op = "read_buffer" /\ link.pc = "ret"
    /\ bl' = IF ~link.ok THEN BlErr(bl, link.err)
             ELSE ReadBufferResult(bl, link.answer)
    /\ UNCHANGED <<link, eng, dev, info, env, opSeq, hist>>

\* Bootloader::load_buffer up to the await of send; the data argument is
\* kept as history (arg), and a call refused for its length has no link
\* operation
load_buffer_call(target, page, address, data) ==
    LET b == [IdleBl EXCEPT !.op = "load_buffer", !.target = target,
                            !.page = page, !.address = address, !.arg = data]
    IN  IF Len(data) > LOAD_BUFFER_MAX
        THEN /\ bl' = BlErr(b, "DataTooLarge")
             /\ link' = IdleLink
             /\ hist' = NoHist
             /\ UNCHANGED opSeq
        ELSE /\ bl' = [b EXCEPT !.pc = "call"]
             /\ link' = LinkCall("send",
                                 load_buffer_command(target, page, address, data),
                                 0, SendTicks)
             /\ opSeq' = opSeq + 1
             /\ hist' = NoHist

load_buffer_return ==
    /\ bl.pc = "call" /\ bl.op = "load_buffer" /\ link.pc = "ret"
    /\ bl' = IF ~link.ok THEN BlErr(bl, link.err)
             ELSE [bl EXCEPT !.pc = "ret", !.res = "ok"]
    /\ UNCHANGED <<link, eng, dev, info, env, opSeq, hist>>

\* Bootloader::get_info
get_info_call(target) ==
    BlIssue("get_info", target, 0, 0,
            LinkCall("request", get_info_command(target), 0, ShortTicks))

get_info_return ==
    /\ bl.pc = "call" /\ bl.op = "get_info" /\ link.pc = "ret"
    /\ bl' = IF ~link.ok THEN BlErr(bl, link.err)
             ELSE LET r == InfoPacket_from_bytes(SliceFrom(link.answer, 2))
                  IN  IF r.panic THEN BlPanic(bl)
                      ELSE [bl EXCEPT !.pc = "ret", !.res = "ok",
                                      !.info = r.packet]
    /\ UNCHANGED <<link, eng, dev, info, env, opSeq, hist>>

\* Bootloader::get_vbat
get_vbat_call(target) ==
    BlIssue("get_vbat", target, 0, 0,
            LinkCall("request", get_vbat_command(target), 0, ShortTicks))

\* Bootloader::get_vbat after the await: the length check, then
\* response[2] .. response[5], which abort when the response is shorter
VbatResult(b, response) ==
    IF Len(response) < VBAT_MIN_LEN THEN BlErr(b, "InvalidVbatLength")
    ELSE IF Len(response) < 6 THEN BlPanic(b)
    ELSE [b EXCEPT !.pc = "ret", !.res = "ok",
                   !.vbat = f32_from_le_bytes(response[3], response[4],
                                              response[5], response[6])]

get_vbat_return ==
    /\ bl.pc = "call" /\ bl.op = "get_vbat" /\ link.pc = "ret"
    /\ bl' = IF ~link.ok THEN BlErr(bl, link.err)
             ELSE VbatResult(bl, link.answer)
    /\ UNCHANGED <<link, eng, dev, info, env, opSeq, hist>>

\* Bootloader::reset, all_off, sys_off, sys_on up to the await of send
reset_call(target) ==
    BlIssue("reset", target, 0, 0,
            LinkCall("send", bare_command(target, CMD_RESET), 0, SendTicks))

all_off_call(target) ==
    BlIssue("all_off", target, 0, 0,
            LinkCall("send", bare_command(target, CMD_ALLOFF), 0, SendTicks))

sys_off_call(target) ==
    BlIssue("sys_off", target, 0, 0,
            LinkCall("send", bare_command(target, CMD_SYSOFF), 0, SendTicks))

sys_on_call(target) ==
    BlIssue("sys_on", target, 0, 0,
            LinkCall("send", bare_command(target, CMD_SYSON), 0, SendTicks))

FireAndForget == {"reset", "all_off", "sys_off", "sys_on"}

\* a return that hands the result of send to the caller
SendResultPropagated(b, l) ==
    IF ~l.ok THEN BlErr(b, l.err) ELSE [b EXCEPT !.pc = "ret", !.res = "ok"]

\* let _ = bllink.send(&command).await; Ok(())
SendResultIgnored(b, l) == [b EXCEPT !.pc = "ret", !.res = "ok"]

\* reset, all_off, sys_off, sys_on after the await
fire_and_forget_return ==
    /\ bl.pc = "call" /\ bl.op \in FireAndForget /\ link.pc = "ret"
    /\ bl' = SendResultIgnored(bl, link)
    /\ UNCHANGED <<link, eng, dev, info, env, opSeq, hist>>

----------------------------------------------------------------------------
(* CFLoader (cfloader.rs): the flashing and the reading engine *)

IdleEng ==
    [op |-> "none", pc |-> "idle", res |-> "none", err |-> "none", n |-> 0,
     target |-> 0, start_address |-> 0, image |-> <<>>,
     bytes_written |-> 0, current_address |-> 0, chunk_size |-> 0,
     current_page |-> 0, pages_needed |-> 0,
     chunk_offset |-> 0, buffer_page |-> 0, bytes_to_write |-> 0,
     page_offset |-> 0, bytes_written_to_page |-> 0, load_size |-> 0,
     flashed |-> FALSE, flash_target |-> 0,
     read_start |-> 0, read_address |-> 0, length |-> 0, result |-> <<>>, bytes_read |-> 0,
     read_size |-> 0, emptyPacket |-> FALSE,
     progress_callback |-> FALSE, kind |-> 0,
     loaded |-> <<>>, progress |-> <<>>,
     failed |-> FALSE, failSeq |-> 0,
     created |-> FALSE, nrf51_info |-> NoInfoPacket, entrySeq |-> 0,
     commits |-> 0, writes |-> <<>>]

EngRet(e, res, err) == [e EXCEPT !.pc = "ret", !.res = res, !.err = err]

\* a page number rounded up
PageOfCeil(x, page_size) == ((x + page_size - 1) \div page_size) % 65536

\* (x / page_size as u32) as u16
PageOf(x, page_size) == (x \div page_size) % 65536

\* a check that lets every start page through
BeforeFlashStartNever(start_page, flash_start_page) == FALSE

\* if start_page < flash_start_page { return Err(..) }
BeforeFlashStart(start_page, flash_start_page) == start_page < flash_start_page

\* a match whose last arm returns success
InvalidTargetAccepted(e) == EngRet(e, "ok", "none")

\* _ => return Err(anyhow!("Invalid bootloader target: ..")) of
\* flash_image_internal and read_flash
InvalidTargetResult(e) == EngRet(e, "err", "InvalidTarget")

\* flash_image_internal, from its entry to the head of the chunk loop;
\* progress_callback tells whether the caller passed Some(callback)
flash_image_internal_entry(target, start_address, image, progress_callback) ==
    LET e == [eng EXCEPT !.op = "flash", !.res = "none", !.err = "none",
                         !.n = @ + 1, !.target = target,
                         !.start_address = start_address, !.image = image,
                         !.flashed = FALSE, !.flash_target = target,
                         !.progress_callback = progress_callback,
                         !.kind = 0, !.loaded = <<>>, !.progress = <<>>,
                         !.failed = FALSE, !.failSeq = 0,
                         !.commits = 0, !.writes = <<>>]
    IN  IF target \notin Targets THEN InvalidTargetResult(e)
        ELSE IF info[target].page_size = 0 THEN EngRet(e, "panic", "DivideByZero")
        ELSE IF BeforeFlashStart(PageOf(start_address, info[target].page_size),
                                 info[target].flash_start)
        THEN EngRet(e, "err", "BeforeFlashStart")
        ELSE [e EXCEPT !.pc = "f_loop", !.bytes_written = 0,
                       !.current_address = start_address]

\* a page count rounded down
pages_needed_floor(chunk_size, page_size) == (chunk_size \div page_size) % 65536

\* ((chunk_size + page_size - 1) / page_size) as u16
pages_needed(chunk_size, page_size) ==
    ((chunk_size + page_size - 1) \div page_size) % 65536

\* while bytes_written < image.len(): the next chunk, or Ok(())
FlashLoop ==
    /\ eng.pc = "f_loop"
    /\ LET page_size == info[eng.target].page_size
           buffer_size == page_size * info[eng.target].n_buff_page
           chunk_size == Min(Len(eng.image) - eng.bytes_written, buffer_size)
       IN  eng' = IF eng.bytes_written < Len(eng.image)
                  THEN [eng EXCEPT !.pc = "c_loop",
                            !.chunk_size = chunk_size,
                            !.current_page = PageOf(eng.current_address, page_size),
                            !.pages_needed = pages_needed(chunk_size, page_size),
                            !.chunk_offset = 0, !.buffer_page = 0,
                            !.loaded = <<>>]
                  ELSE [EngRet(eng, "ok", "none") EXCEPT !.flashed = TRUE]
    /\ UNCHANGED <<link, bl, dev, info, env, opSeq, hist>>

\* a page filled with all that is left of the chunk
bytes_to_write_all(remaining_in_chunk, page_size) == remaining_in_chunk

\* remaining_in_chunk.min(page_size)
bytes_to_write(remaining_in_chunk, page_size) == Min(remaining_in_chunk, page_size)

\* a loop that loads the first buffer page only
MoreToLoadFirstPage(chunk_offset, chunk_len) ==
    chunk_offset = 0 /\ chunk_offset < chunk_len

\* chunk_offset < chunk.len(), the condition of the loop of
\* load_chunk_to_buffer
MoreToLoad(chunk_offset, chunk_len) == chunk_offset < chunk_len

\* history: the (flash_page, n_pages) of the write_flash commands of the
\* running flash, the first MaxWrites of them
WithWrite(e) ==
    [e EXCEPT !.writes = IF Len(@) < MaxWrites
                         THEN Append(@, <<e.current_page, e.pages_needed>>)
                         ELSE @]

\* load_chunk_to_buffer, while chunk_offset < chunk.len(): the next buffer
\* page, or back in flash_image_internal with the write_flash of the chunk;
\* a flash is followed for its first MaxWrites + 1 successful write_flash
\* commands
ChunkLoop ==
    /\ eng.pc = "c_loop"
    /\ eng.commits <= MaxWrites
    /\ IF MoreToLoad(eng.chunk_offset, eng.chunk_size)
       THEN /\ eng' = [eng EXCEPT !.pc = "p_loop",
                           !.bytes_to_write =
                               bytes_to_write(eng.chunk_size - eng.chunk_offset,
                                              info[eng.target].page_size),
                           !.page_offset = 0, !.bytes_written_to_page = 0]
            /\ UNCHANGED <<link, bl, opSeq, hist>>
       ELSE /\ eng' = WithWrite([eng EXCEPT !.pc = "f_wait"])
            /\ write_flash_call(eng.target, 0, eng.current_page, eng.pages_needed)
    /\ UNCHANGED <<dev, info, env>>

\* a slice always taken from the start of the image
data_slice_from_start(image, from, load_size) == SubSeq(image, 1, load_size)

\* &chunk[from..from + load_size] of the image
data_slice(image, from, load_size) == SubSeq(image, from + 1, from + load_size)

\* a load of up to one byte more than the protocol carries
load_size_over(remaining_in_page) == Min(remaining_in_page, MAX_LOAD_SIZE + 1)

\* remaining_in_page.min(25)
load_size(remaining_in_page) == Min(remaining_in_page, MAX_LOAD_SIZE)

\* history: the bytes one load_buffer(page, address, data) stages, each with
\* its buffer coordinate
Staged(page, address, data) ==
    [k \in 1..Len(data) |-> <<page, address + k - 1, data[k]>>]

\* while bytes_written_to_page < bytes_to_write: the next load_buffer of at
\* most 25 bytes, or on to the next buffer page
PageLoop ==
    /\ eng.pc = "p_loop"
    /\ IF eng.bytes_written_to_page < eng.bytes_to_write
       THEN LET size == load_size(eng.bytes_to_write - eng.bytes_written_to_page)
                from == eng.bytes_written + eng.chunk_offset
                            + eng.bytes_written_to_page
                slice == data_slice(eng.image, from, size)
            IN  /\ eng' = [eng EXCEPT !.pc = "p_wait", !.load_size = size,
                                      !.loaded = @ \o Staged(eng.buffer_page,
                                                             eng.page_offset, slice)]
                /\ load_buffer_call(eng.target, eng.buffer_page, eng.page_offset,
                                    slice)
       ELSE /\ eng' = [eng EXCEPT !.pc = "c_loop",
                           !.chunk_offset = @ + eng.bytes_to_write,
                           !.buffer_page = (@ + 1) % 65536]
            /\ UNCHANGED <<link, bl, opSeq, hist>>
    /\ UNCHANGED <<dev, info, env>>

\* history: a Bootloader call of the running chunk failed, after opSeq
\* commands had been issued
ChunkFailed(e) == [e EXCEPT !.failed = TRUE, !.failSeq = opSeq]

\* load_buffer(..).await? returned
LoadDone ==
    /\ eng.pc = "p_wait" /\ bl.pc = "ret"
    /\ eng' = IF bl.res # "ok" THEN ChunkFailed(EngRet(eng, bl.res, bl.err))
              ELSE [eng EXCEPT !.pc = "p_loop",
                        !.page_offset = (@ + eng.load_size) % 65536,
                        !.bytes_written_to_page = @ + eng.load_size]
    /\ UNCHANGED <<link, bl, dev, info, env, opSeq, hist>>

\* a callback invoked before the counters are updated
progress_callback_early(e, bytes_written, chunk_size, total) ==
    IF e.progress_callback
    THEN Append(e.progress, <<bytes_written, total>>)
    ELSE e.progress

\* if let Some(callback) = progress_callback { callback(bytes_written,
\* image.len()) }, after bytes_written += chunk_size; the invocations are
\* kept as history
progress_callback(e, bytes_written, chunk_size, total) ==
    IF e.progress_callback
    THEN Append(e.progress, <<bytes_written + chunk_size, total>>)
    ELSE e.progress

\* history: write_flash returned a response that says done and carries
\* none of the error codes 1, 2, 3
WithCommit(e, b) ==
    [e EXCEPT !.commits = IF b.res = "ok" /\ b.done # 0 /\ b.error \notin {1, 2, 3}
                          THEN @ + 1 ELSE @]

\* write_flash(..).await? returned: the is_success check, the counters and
\* the progress callback
WriteDone ==
    /\ eng.pc = "f_wait" /\ bl.pc = "ret"
    /\ eng' = IF bl.res # "ok" THEN ChunkFailed(EngRet(eng, bl.res, bl.err))
              ELSE IF ~is_success(bl)
              THEN [ChunkFailed(EngRet(eng, "err", "FlashFailed"))
                       EXCEPT !.kind = FlashError_from(bl.error)]
              ELSE [WithCommit(eng, bl) EXCEPT !.pc = "f_loop",
                        !.bytes_written = @ + eng.chunk_size,
                        !.current_address = @ + eng.chunk_size,
                        !.progress = progress_callback(eng, eng.bytes_written,
                                                       eng.chunk_size,
                                                       Len(eng.image))]
    /\ UNCHANGED <<link, bl, dev, info, env, opSeq, hist>>

\* CFLoader::read_flash, from its entry to the head of its loop
read_flash_entry(target, start_address, length) ==
    LET e == [eng EXCEPT !.op = "read", !.res = "none", !.err = "none",
                         !.n = @ + 1, !.target = target,
                         !.read_start = start_address,
                         !.read_address = start_address, !.length = length,
                         !.result = <<>>, !.bytes_read = 0,
                         !.emptyPacket = FALSE]
    IN  IF target \notin Targets THEN InvalidTargetResult(e)
        ELSE [e EXCEPT !.pc = "r_loop"]

\* a loop that goes round once more
MoreToReadInclusive(bytes_read, length) == bytes_read <= length

\* bytes_read < length, the condition of the loop of read_flash
MoreToRead(bytes_read, length) == bytes_read < length

\* a read size without the protocol's limit
read_size_for_uncapped(remaining_bytes) == remaining_bytes

\* (remaining_bytes as usize).min(MAX_READ_SIZE)
read_size_for(remaining_bytes) == Min(remaining_bytes, MAX_READ_SIZE)

\* while bytes_read < length: the next read_flash, or Ok(result)
ReadLoop ==
    /\ eng.pc = "r_loop"
    /\ LET page_size == info[eng.target].page_size
       IN  IF MoreToRead(eng.bytes_read, eng.length)
           THEN IF page_size = 0
                THEN /\ eng' = EngRet(eng, "panic", "DivideByZero")
                     /\ UNCHANGED <<link, bl, opSeq, hist>>
                ELSE /\ eng' = [eng EXCEPT !.pc = "r_wait",
                                    !.read_size =
                                        read_size_for(eng.length - eng.bytes_read)]
                     /\ read_flash_call(eng.target,
                                        PageOf(eng.read_address, page_size),
                                        (eng.read_address % page_size) % 65536)
           ELSE /\ eng' = EngRet(eng, "ok", "none")
                /\ UNCHANGED <<link, bl, opSeq, hist>>
    /\ UNCHANGED <<dev, info, env>>

\* a read that fails with ShortRead on a packet with no data byte
OnEmptyPacketShortRead(e) == EngRet(e, "err", "ShortRead")

\* what CFLoader::read_flash does with a packet that yields no byte
\* (data_to_take == 0): break, and Ok(result) after the loop
OnEmptyPacket(e) == EngRet(e, "ok", "none")

\* a read that appends every byte of a packet
data_to_take_all(read_size, data) == Len(data)

\* how many bytes of a packet CFLoader::read_flash appends
data_to_take(read_size, data) == Min(read_size, Len(data))

\* read_flash(..).await? returned: take the bytes needed and go round
ReadDone ==
    /\ eng.pc = "r_wait" /\ bl.pc = "ret"
    /\ LET take == data_to_take(eng.read_size, bl.data)
       IN  eng' = IF bl.res # "ok" THEN EngRet(eng, bl.res, bl.err)
                  ELSE IF take = 0
                  THEN OnEmptyPacket([eng EXCEPT !.emptyPacket = TRUE])
                  ELSE [eng EXCEPT !.pc = "r_loop",
                            !.result = @ \o SliceTo(bl.data, take),
                            !.bytes_read = @ + take,
                            !.read_address = @ + take]
    /\ UNCHANGED <<link, bl, dev, info, env, opSeq, hist>>

\* a constructor that goes on after a failed get_info
GetInfoFailedNever(b) == FALSE

\* the ? of nrf51.get_info(..).await? and stm32.get_info(..).await?
GetInfoFailed(b) == b.res # "ok"

\* CFLoader::new after nrf51.get_info returned: fail, or keep nrf51_info
\* and call stm32.get_info
NewNrf51Done ==
    /\ eng.pc = "n_nrf51" /\ bl.pc = "ret"
    /\ IF GetInfoFailed(bl)
       THEN /\ eng' = EngRet(eng, bl.res, bl.err)
            /\ UNCHANGED <<link, bl, opSeq, hist>>
       ELSE /\ eng' = [eng EXCEPT !.pc = "n_stm32", !.nrf51_info = bl.info]
            /\ get_info_call(TARGET_STM32)
    /\ UNCHANGED <<dev, info, env>>

\* CFLoader::new after stm32.get_info returned: fail, or Ok(CFLoader {..})
NewStm32Done ==
    /\ eng.pc = "n_stm32" /\ bl.pc = "ret"
    /\ IF GetInfoFailed(bl)
       THEN /\ eng' = EngRet(eng, bl.res, bl.err)
            /\ info' = info
       ELSE /\ eng' = [EngRet(eng, "ok", "none") EXCEPT !.created = TRUE]
            /\ info' = [t \in Targets |->
                           IF t = TARGET_NRF51 THEN eng.nrf51_info ELSE bl.info]
    /\ UNCHANGED <<link, bl, dev, env, opSeq, hist>>

new == NewNrf51Done \/ NewStm32Done

reset_init_command == <<255, TARGET_NRF51, CMD_RESET_INIT>>

reset_command == <<255, TARGET_NRF51, CMD_RESET, 1>>

\* a reset_to_firmware that goes on after a failed send
SendFailedNever(l) == FALSE

\* the ? of self.bllink.send(..).await?
SendFailed(l) == ~l.ok

\* reset_to_firmware after send(&reset_init_command) returned: fail, or
\* send(&reset_command); the history of the frames goes on
ResetInitDone ==
    /\ eng.pc = "x_init" /\ link.pc = "ret"
    /\ IF SendFailed(link)
       THEN /\ eng' = EngRet(eng, "err", link.err)
            /\ UNCHANGED <<link, opSeq, hist>>
       ELSE /\ eng' = [eng EXCEPT !.pc = "x_reset"]
            /\ link' = LinkCall("send", reset_command, 0, SendTicks)
            /\ opSeq' = opSeq + 1
            /\ hist' = [NoHist EXCEPT !.frames = hist.frames,
                                      !.ackedFrames = hist.ackedFrames]
    /\ UNCHANGED <<bl, dev, info, env>>

\* reset_to_firmware after send(&reset_command) returned
ResetDone ==
    /\ eng.pc = "x_reset" /\ link.pc = "ret"
    /\ eng' = IF SendFailed(link) THEN EngRet(eng, "err", link.err)
              ELSE EngRet(eng, "ok", "none")
    /\ UNCHANGED <<link, bl, dev, info, env, opSeq, hist>>

reset_to_firmware == ResetInitDone \/ ResetDone

flash_image_internal == FlashLoop \/ WriteDone

load_chunk_to_buffer == ChunkLoop \/ PageLoop \/ LoadDone

read_flash == ReadLoop \/ ReadDone

----------------------------------------------------------------------------
(* A client of CFLoader: it may flash an image, and then reads flash back *)

\* image bytes differ from each other and from the erased flash (0)
Images == {[j \in 1..len |-> 16 + j] : len \in 0..MaxImageLen}

EngineReady ==
    /\ env.client = "cfloader"
    /\ eng.pc \in {"idle", "ret"}

ClientFlashImage ==
    /\ EngineReady
    /\ eng.op = "none"
    /\ \E t \in Targets, start_address \in 0..(FlashCap - 1), image \in Images :
          eng' = flash_image_internal_entry(t, start_address, image, FALSE)
    /\ UNCHANGED <<link, bl, dev, info, env, opSeq, hist>>

ClientReadFlashRange ==
    /\ EngineReady
    /\ eng.op # "read"
    /\ \E t \in Targets, start_address \in 0..(FlashCap - 1),
          length \in 0..MaxImageLen :
          /\ eng.op = "flash" => t = eng.target
          /\ eng' = read_flash_entry(t, start_address, length)
    /\ UNCHANGED <<link, bl, dev, info, env, opSeq, hist>>

\* a client of flash_image_with_progress on a device with long pages:
\* images that fill part of a page, one page, more than a page, and more
\* than the whole RAM buffer
LongImageLens ==
    {0, 1, LongPage - 1, LongPage, LongPage + 1, NBuffPage * LongPage + 1}

LongImages == {[j \in 1..len |-> 16 + j] : len \in LongImageLens}

\* start addresses at the start of every page, and one byte into it
PageStarts(g) ==
    {page * g.page_size + o : page \in 0..(g.n_flash_page - 1), o \in {0, 1}}

ClientFlashImageWithProgress ==
    /\ env.client = "flasher"
    /\ eng.pc = "idle"
    /\ \E t \in Targets, image \in LongImages :
          \E start_address \in PageStarts(info[t]) :
             eng' = flash_image_internal_entry(t, start_address, image, TRUE)
    /\ UNCHANGED <<link, bl, dev, info, env, opSeq, hist>>

\* a client that reads ranges longer than one packet from a device with
\* long pages: from the start of flash, from the last byte of a page and
\* from one byte into a page
LongReadStarts == {0, LongPage - 1, LongPage + 1}

LongReadLengths ==
    {0, 1, MAX_READ_SIZE, MAX_READ_SIZE + 1, 2 * MAX_READ_SIZE + 1}

ClientReadLong ==
    /\ env.client = "reader"
    /\ eng.pc = "idle"
    /\ \E t \in Targets, start_address \in LongReadStarts,
          length \in LongReadLengths :
          eng' = read_flash_entry(t, start_address, length)
    /\ UNCHANGED <<link, bl, dev, info, env, opSeq, hist>>

\* a client that issues one command that awaits a response
ClientOneRequest ==
    /\ env.client = "single"
    /\ bl.pc = "idle"
    /\ \E t \in Targets :
          \/ write_flash_call(t, 0, FlashStart, 1)
          \/ flash_status_call(t)
    /\ UNCHANGED <<eng, dev, info, env>>

\* info records with a zero in them, and the one of the device of the model
ZeroRecords ==
    {DevInfo, [DevInfo EXCEPT !.page_size = 0],
     [DevInfo EXCEPT !.n_buff_page = 0]}

\* a client that flashes an image, the empty one included, at the start of
\* the flashable area
ClientFlashZero ==
    /\ env.client = "zero"
    /\ eng.pc = "idle"
    /\ \E t \in Targets, image \in Images :
          eng' = flash_image_internal_entry(t, FlashStart * PageSize, image,
                                            FALSE)
    /\ UNCHANGED <<link, bl, dev, info, env, opSeq, hist>>

\* a client that flashes and reads at addresses whose page number has 16
\* bits and at addresses whose page number has 17
WideAddresses ==
    {FlashStart * PageSize, 65536 * PageSize,
     65536 * PageSize + FlashStart * PageSize}

ClientFlashWide ==
    /\ env.client = "wide"
    /\ eng.pc = "idle"
    /\ \E t \in Targets, start_address \in WideAddresses,
          image \in {<<17>>, <<17, 18, 19>>} :
          eng' = flash_image_internal_entry(t, start_address, image, FALSE)
    /\ UNCHANGED <<link, bl, dev, info, env, opSeq, hist>>

ClientReadWide ==
    /\ env.client = "wide"
    /\ eng.pc = "idle"
    /\ \E t \in Targets, start_address \in WideAddresses, length \in {1, 3} :
          eng' = read_flash_entry(t, start_address, length)
    /\ UNCHANGED <<link, bl, dev, info, env, opSeq, hist>>

----------------------------------------------------------------------------
(* A client of the facade from its construction on: CFLoader::new, and     *)
(* then one of flash_image, read_flash and reset_to_firmware               *)

ClientNew ==
    /\ env.client = "facade"
    /\ eng.pc = "idle"
    /\ eng' = [eng EXCEPT !.op = "new", !.pc = "n_nrf51"]
    /\ get_info_call(TARGET_NRF51)
    /\ UNCHANGED <<dev, info, env>>

\* the facade exists and has not been used yet
FacadeReady ==
    /\ env.client = "facade"
    /\ eng.created /\ eng.op = "new" /\ eng.pc = "ret"

\* target arguments: the two target ids, and two bytes that are neither
TargetArgs == Targets \cup {0, 253}

ClientFacadeFlash ==
    /\ FacadeReady
    /\ \E t \in TargetArgs, image \in {<<>>, <<17>>} :
          eng' = [flash_image_internal_entry(t, FlashStart * PageSize, image,
                                             FALSE)
                     EXCEPT !.entrySeq = opSeq]
    /\ UNCHANGED <<link, bl, dev, info, env, opSeq, hist>>

ClientFacadeRead ==
    /\ FacadeReady
    /\ \E t \in TargetArgs, start_address \in {0, PageSize + 1},
          length \in {0, 1} :
          eng' = [read_flash_entry(t, start_address, length)
                     EXCEPT !.entrySeq = opSeq]
    /\ UNCHANGED <<link, bl, dev, info, env, opSeq, hist>>

\* reset_to_firmware up to the await of send(&reset_init_command)
ClientResetToFirmware ==
    /\ FacadeReady
    /\ eng' = [eng EXCEPT !.op = "reset_to_firmware", !.pc = "x_init",
                          !.res = "none", !.err = "none", !.entrySeq = opSeq]
    /\ link' = LinkCall("send", reset_init_command, 0, SendTicks)
    /\ bl' = IdleBl
    /\ opSeq' = opSeq + 1
    /\ hist' = NoHist
    /\ UNCHANGED <<dev, info, env>>

----------------------------------------------------------------------------
(* A client that calls Bllink::request_match_response and                  *)
(* Bootloader::load_buffer with arguments of every size                    *)

CallerReady ==
    /\ env.client = "caller"
    /\ link.pc \in {"idle", "ret"}
    /\ bl.pc \in {"idle", "ret"}
    /\ opSeq < MaxOps

\* request_match_response(data, match_length, SHORT_TIMEOUT) with data a
\* flash_status frame, and match_length up to and above its length
ClientRequestMatchResponse ==
    /\ CallerReady
    /\ \E t \in Targets, match_length \in 0..MaxMatchLength :
          link' = LinkCall("match", flash_status_command(t), match_length,
                           ShortTicks)
    /\ bl' = IdleBl
    /\ opSeq' = opSeq + 1
    /\ hist' = NoHist
    /\ UNCHANGED <<eng, dev, info, env>>

\* data arguments of 0, 1, 25 and 26 bytes
LoadArgs == {[j \in 1..len |-> 16 + j] :
                len \in {0, 1, LOAD_BUFFER_MAX, LOAD_BUFFER_MAX + 1}}

\* page and address arguments whose two bytes differ
LoadCoords == {0, 258}

ClientLoadBufferSized ==
    /\ CallerReady
    /\ \E t \in Targets, page \in LoadCoords, address \in LoadCoords,
          data \in LoadArgs :
          load_buffer_call(t, page, address, data)
    /\ UNCHANGED <<eng, dev, info, env>>

----------------------------------------------------------------------------
(* A client of the pub Bootloader API: it issues commands one at a time    *)

ClientPages == {1, 256}

ClientReady ==
    /\ env.client = "bootloader"
    /\ eng.pc = "idle" /\ bl.pc \in {"idle", "ret"}
    /\ opSeq < MaxOps

ClientWriteFlash ==
    /\ ClientReady
    /\ \E t \in Targets : write_flash_call(t, 0, FlashStart, 1)
    /\ UNCHANGED <<eng, dev, info, env>>

ClientFlashStatus ==
    /\ ClientReady
    /\ \E t \in Targets : flash_status_call(t)
    /\ UNCHANGED <<eng, dev, info, env>>

ClientReadFlash ==
    /\ ClientReady
    /\ \E t \in Targets, page \in ClientPages : read_flash_call(t, page, 0)
    /\ UNCHANGED <<eng, dev, info, env>>

ClientReadBuffer ==
    /\ ClientReady
    /\ \E t \in Targets, address \in {0, 1} : read_buffer_call(t, 0, address)
    /\ UNCHANGED <<eng, dev, info, env>>

ClientLoadBuffer ==
    /\ ClientReady
    /\ \E t \in Targets : load_buffer_call(t, 0, 0, <<17>>)
    /\ UNCHANGED <<eng, dev, info, env>>

ClientGetInfo ==
    /\ ClientReady
    /\ \E t \in Targets : get_info_call(t)
    /\ UNCHANGED <<eng, dev, info, env>>

ClientGetVbat ==
    /\ ClientReady
    /\ \E t \in Targets : get_vbat_call(t)
    /\ UNCHANGED <<eng, dev, info, env>>

ClientFireAndForget ==
    /\ ClientReady
    /\ \E t \in Targets, op \in FireAndForget :
          CASE op = "reset" -> reset_call(t)
            [] op = "all_off" -> all_off_call(t)
            [] op = "sys_off" -> sys_off_call(t)
            [] op = "sys_on" -> sys_on_call(t)
    /\ UNCHANGED <<eng, dev, info, env>>

----------------------------------------------------------------------------

\* a device with info record g for both targets: nothing pending, RAM
\* buffer and flash erased
InitDevWith(g) ==
    [q |-> <<>>,
     geo |-> [t \in Targets |-> g],
     report |-> [t \in Targets |-> g],
     buf |-> [t \in Targets |-> [a \in 0..(BufCapOf(g) - 1) |-> 0]],
     flash |-> [t \in Targets |-> [a \in 0..(FlashCapOf(g) - 1) |-> 0]]]

InitDev == InitDevWith(DevInfo)

Init ==
    /\ link = IdleLink
    /\ bl = IdleBl
    /\ eng = IdleEng
    /\ dev = InitDev
    /\ info = [t \in Targets |-> DevInfo]
    /\ env = [client |-> "bootloader", lossy |-> TRUE, delay |-> TRUE,
              readLens |-> {DevReadMax}, writeResults |-> {<<1, 0>>},
              cuts |-> {}, census |-> FALSE]
    /\ opSeq = 0
    /\ hist = NoHist

LinkNext ==
    \/ TryStart
    \/ try_send
    \/ try_request
    \/ try_request_match_response

BlNext ==
    \/ write_flash_return
    \/ flash_status_return
    \/ read_flash_return
    \/ load_buffer_return

Next ==
    \/ ClientWriteFlash
    \/ ClientFlashStatus
    \/ ClientReadFlash
    \/ ClientLoadBuffer
    \/ LinkNext
    \/ BlNext

Spec == Init /\ [][Next]_vars

\* the flashing and reading engines against a device reached over a radio
\* that loses nothing; the device answers at once, and may or may not put
\* data bytes in every read response
InitEngine ==
    /\ link = IdleLink
    /\ bl = IdleBl
    /\ eng = IdleEng
    /\ dev = InitDev
    /\ info = [t \in Targets |-> DevInfo]
    /\ \E lens \in {1..DevReadMax, 0..DevReadMax} :
          env = [client |-> "cfloader", lossy |-> FALSE, delay |-> FALSE,
                 readLens |-> lens, writeResults |-> {<<1, 0>>},
              cuts |-> {}, census |-> FALSE]
    /\ opSeq = 0
    /\ hist = NoHist

NextEngine ==
    \/ ClientFlashImage
    \/ ClientReadFlashRange
    \/ flash_image_internal
    \/ load_chunk_to_buffer
    \/ read_flash
    \/ LinkNext
    \/ write_flash_return
    \/ read_flash_return
    \/ load_buffer_return

SpecEngine == InitEngine /\ [][NextEngine]_vars

\* the results a device whose flash may fail answers a write_flash with
WriteResults == {<<done, error>> : done \in {0, 1}, error \in 0..MaxErrorCode}

\* the flashing engine with a progress callback, against a device with long
\* pages whose flash writes may fail, over a radio that may lose packets
InitFlash ==
    /\ link = IdleLink
    /\ bl = IdleBl
    /\ eng = IdleEng
    /\ dev = InitDevWith(LongPageInfo)
    /\ info = [t \in Targets |-> LongPageInfo]
    /\ env = [client |-> "flasher", lossy |-> TRUE, delay |-> FALSE,
              readLens |-> {DevReadMax}, writeResults |-> WriteResults,
              cuts |-> {}, census |-> FALSE]
    /\ opSeq = 0
    /\ hist = NoHist

NextFlash ==
    \/ ClientFlashImageWithProgress
    \/ flash_image_internal
    \/ load_chunk_to_buffer
    \/ TryStart
    \/ try_send
    \/ try_request_match_response
    \/ write_flash_return
    \/ load_buffer_return

SpecFlash == InitFlash /\ [][NextFlash]_vars

\* data lengths of the read responses of a device that sends one byte, as
\* many as the host takes at most, or more
PacketDataLens == {1, MAX_READ_SIZE, MaxPacketData}

\* the reading engine against a device with long pages whose flash holds
\* a different byte at every address, over a radio that loses nothing
InitRead ==
    /\ link = IdleLink
    /\ bl = IdleBl
    /\ eng = IdleEng
    /\ dev = [InitDevWith(LongPageInfo) EXCEPT
                 !.flash = [t \in Targets |->
                               [a \in 0..(FlashCapOf(LongPageInfo) - 1) |-> 1 + a]]]
    /\ info = [t \in Targets |-> LongPageInfo]
    /\ env = [client |-> "reader", lossy |-> FALSE, delay |-> FALSE,
              readLens |-> PacketDataLens, writeResults |-> {<<1, 0>>},
              cuts |-> {}, census |-> FALSE]
    /\ opSeq = 0
    /\ hist = NoHist

NextRead ==
    \/ ClientReadLong
    \/ read_flash
    \/ TryStart
    \/ try_request
    \/ read_flash_return

SpecRead == InitRead /\ [][NextRead]_vars

\* lengths a read response may arrive cut to: below, at and above the 7
\* bytes of a read request
ReadCuts == MaxCut..(MaxCut + 3)

\* a client of read_flash and read_buffer over a radio that may fail, lose
\* packets and deliver a response cut short
InitCodec ==
    /\ link = IdleLink
    /\ bl = IdleBl
    /\ eng = IdleEng
    /\ dev = InitDev
    /\ info = [t \in Targets |-> DevInfo]
    /\ env = [client |-> "bootloader", lossy |-> TRUE, delay |-> FALSE,
              readLens |-> {DevReadMax}, writeResults |-> {<<1, 0>>},
              cuts |-> ReadCuts, census |-> FALSE]
    /\ opSeq = 0
    /\ hist = NoHist

NextCodec ==
    \/ ClientReadFlash
    \/ ClientReadBuffer
    \/ TryStart
    \/ try_request
    \/ read_flash_return
    \/ read_buffer_return

SpecCodec == InitCodec /\ [][NextCodec]_vars

\* the engines called with 32-bit addresses, over a radio that loses
\* nothing
InitWide ==
    /\ link = IdleLink
    /\ bl = IdleBl
    /\ eng = IdleEng
    /\ dev = InitDev
    /\ info = [t \in Targets |-> DevInfo]
    /\ env = [client |-> "wide", lossy |-> FALSE, delay |-> FALSE,
              readLens |-> {DevReadMax}, writeResults |-> {<<1, 0>>},
              cuts |-> {}, census |-> FALSE]
    /\ opSeq = 0
    /\ hist = NoHist

NextWide ==
    \/ ClientFlashWide
    \/ ClientReadWide
    \/ flash_image_internal
    \/ load_chunk_to_buffer
    \/ read_flash
    \/ LinkNext
    \/ write_flash_return
    \/ read_flash_return
    \/ load_buffer_return

SpecWide == InitWide /\ [][NextWide]_vars

\* the flashing engine with the info records a device reported at
\* construction, one of ZeroRecords, over a radio that loses nothing; the
\* device answers every command
InitZero ==
    /\ link = IdleLink
    /\ bl = IdleBl
    /\ eng = IdleEng
    /\ \E r \in ZeroRecords :
          /\ dev = [InitDev EXCEPT !.report = [t \in Targets |-> r]]
          /\ info = [t \in Targets |-> r]
    /\ env = [client |-> "zero", lossy |-> FALSE, delay |-> FALSE,
              readLens |-> {DevReadMax}, writeResults |-> {<<1, 0>>},
              cuts |-> {}, census |-> FALSE]
    /\ opSeq = 0
    /\ hist = NoHist

NextZero ==
    \/ ClientFlashZero
    \/ flash_image_internal
    \/ load_chunk_to_buffer
    \/ TryStart
    \/ try_send
    \/ try_request_match_response
    \/ write_flash_return
    \/ load_buffer_return

SpecZero == InitZero /\ [][NextZero]_vars

\* one write_flash or flash_status over a radio that may fail and lose
\* packets and ACKs, with the transmissions of the command counted
InitSingle ==
    /\ link = IdleLink
    /\ bl = IdleBl
    /\ eng = IdleEng
    /\ dev = InitDev
    /\ info = [t \in Targets |-> DevInfo]
    /\ env = [client |-> "single", lossy |-> TRUE, delay |-> FALSE,
              readLens |-> {DevReadMax}, writeResults |-> {<<1, 0>>},
              cuts |-> {}, census |-> TRUE]
    /\ opSeq = 0
    /\ hist = NoHist

NextSingle ==
    \/ ClientOneRequest
    \/ TryStart
    \/ try_request
    \/ try_request_match_response
    \/ write_flash_return
    \/ flash_status_return

SpecSingle == InitSingle /\ [][NextSingle]_vars

\* the facade from before its construction, over a radio that may fail and
\* lose packets
InitFacade ==
    /\ link = IdleLink
    /\ bl = IdleBl
    /\ eng = IdleEng
    /\ dev = InitDev
    /\ info = [t \in Targets |-> NoInfoPacket]
    /\ env = [client |-> "facade", lossy |-> TRUE, delay |-> FALSE,
              readLens |-> {DevReadMax}, writeResults |-> {<<1, 0>>},
              cuts |-> {}, census |-> FALSE]
    /\ opSeq = 0
    /\ hist = NoHist

NextFacade ==
    \/ ClientNew
    \/ ClientFacadeFlash
    \/ ClientFacadeRead
    \/ ClientResetToFirmware
    \/ new
    \/ flash_image_internal
    \/ load_chunk_to_buffer
    \/ read_flash
    \/ reset_to_firmware
    \/ LinkNext
    \/ get_info_return
    \/ write_flash_return
    \/ read_flash_return
    \/ load_buffer_return

SpecFacade == InitFacade /\ [][NextFacade]_vars

\* info records a device may report: the one of the documentation
\* (page_size 1024, 10 buffer pages, 1024 flash pages, flash_start 128,
\* version 0x10), one whose bytes all differ, and the largest values
InfoRecords ==
    {[page_size |-> 1024, n_buff_page |-> 10, n_flash_page |-> 1024,
      flash_start |-> 128, cpu_id |-> [i \in 1..12 |-> 0], version |-> 16],
     [page_size |-> 258, n_buff_page |-> 772, n_flash_page |-> 1286,
      flash_start |-> 1800, cpu_id |-> [i \in 1..12 |-> 16 + i], version |-> 9],
     [page_size |-> 65535, n_buff_page |-> 1, n_flash_page |-> 65535,
      flash_start |-> 0, cpu_id |-> [i \in 1..12 |-> 255], version |-> 255]}

\* lengths a response may arrive cut to: the echo alone, and a few bytes more
ResponseCuts == 3..MaxCut

\* a client of the Bootloader commands that decode a response or ignore
\* the result of send, against a device that reports one of InfoRecords,
\* over a radio that may fail, lose packets and deliver a response cut short
InitCommands ==
    /\ link = IdleLink
    /\ bl = IdleBl
    /\ eng = IdleEng
    /\ \E r \in InfoRecords :
          dev = [InitDev EXCEPT !.report = [t \in Targets |-> r]]
    /\ info = [t \in Targets |-> DevInfo]
    /\ env = [client |-> "bootloader", lossy |-> TRUE, delay |-> FALSE,
              readLens |-> {DevReadMax}, writeResults |-> {<<1, 0>>},
              cuts |-> ResponseCuts, census |-> FALSE]
    /\ opSeq = 0
    /\ hist = NoHist

NextCommands ==
    \/ ClientGetInfo
    \/ ClientGetVbat
    \/ ClientFireAndForget
    \/ ClientWriteFlash
    \/ ClientFlashStatus
    \/ LinkNext
    \/ get_info_return
    \/ get_vbat_return
    \/ fire_and_forget_return
    \/ write_flash_return
    \/ flash_status_return

SpecCommands == InitCommands /\ [][NextCommands]_vars

\* callers of request_match_response and of load_buffer over a radio that
\* may fail, lose packets and delay responses
InitCalls ==
    /\ link = IdleLink
    /\ bl = IdleBl
    /\ eng = IdleEng
    /\ dev = InitDev
    /\ info = [t \in Targets |-> DevInfo]
    /\ env = [client |-> "caller", lossy |-> TRUE, delay |-> TRUE,
              readLens |-> {DevReadMax}, writeResults |-> {<<1, 0>>},
              cuts |-> {}, census |-> FALSE]
    /\ opSeq = 0
    /\ hist = NoHist

NextCalls ==
    \/ ClientRequestMatchResponse
    \/ ClientLoadBufferSized
    \/ TryStart
    \/ try_send
    \/ try_request_match_response
    \/ load_buffer_return

SpecCalls == InitCalls /\ [][NextCalls]_vars

----------------------------------------------------------------------------
(* Properties of the link and of the command layer, checked under Spec *)

LinkReturnedOk == link.pc = "ret" /\ link.ok

\* C1: a response returned with Ok by request / request_match_response is at
\* least m bytes long and its first m bytes are the request's first m bytes
\* (m = len(data) for request, m = match_length for request_match_response);
\* so the response returned to write_flash begins [0xFF, target, 0x18] and
\* never [0xFF, target, 0x19].
C1_AcceptedResponseEchoesRequest ==
    (LinkReturnedOk /\ link.kind \in {"request", "match"}) =>
        LET m == IF link.kind = "request" THEN Len(link.data) ELSE link.match_length
        IN  /\ Len(link.answer) >= m
            /\ \A i \in 1..m : link.answer[i] = link.data[i]
            /\ bl.op = "write_flash" =>
                  /\ <<link.answer[1], link.answer[2]>> = <<255, bl.target>>
                  /\ link.answer[3] = CMD_WRITE_FLASH
                  /\ link.answer[3] # CMD_FLASH_STATUS

\* a write_flash during which a stale flash-status frame was ACKed, and which
\* returned a response all the same
C1_Witness ==
    LinkReturnedOk /\ bl.op = "write_flash" /\ hist.seenStatus

\* C2 as stated: the response a write_flash call accepts was produced by the
\* device in reply to that very call's command.
C2_AcceptedReplyIsToThisCall ==
    (LinkReturnedOk /\ bl.op = "write_flash") => hist.answerOrigin.n = opSeq

\* C2 amended: the response a write_flash call accepts was produced in reply
\* to a write_flash command for the same target (this call's or an earlier
\* one's), never to a command of another kind or for the other target.
C2_AcceptedReplyIsToAWriteFlash ==
    (LinkReturnedOk /\ bl.op = "write_flash") =>
        /\ hist.answerOrigin.op = "write_flash"
        /\ hist.answerOrigin.target = bl.target
        /\ hist.answerOrigin.n \in 1..opSeq

\* a write_flash call that accepted the reply to an earlier write_flash command
C2_Witness ==
    /\ LinkReturnedOk /\ bl.op = "write_flash"
    /\ hist.answerOrigin.op = "write_flash"
    /\ hist.answerOrigin.n < opSeq

\* C3: when no packet of a link operation is ACKed (and the radio itself
\* works), the operation ends with an error after exactly MAX_RETRIES
\* attempts, each of which ran until its timeout window was over; there is
\* never an attempt beyond MAX_RETRIES.
C3_NoAckFailsAfterMaxRetries ==
    /\ hist.tries <= MAX_RETRIES
    /\ (/\ link.pc = "ret" /\ ~hist.acked /\ ~hist.radioErr
        /\ link.match_length <= Len(link.data)) =>
            /\ ~link.ok
            /\ link.err = "NoAck"
            /\ hist.tries = MAX_RETRIES
            /\ hist.allExpired

\* a request_match_response that ended without a single ACK
C3_Witness ==
    /\ link.pc = "ret" /\ link.kind = "match"
    /\ ~hist.acked /\ ~hist.radioErr /\ hist.tries = MAX_RETRIES

\* C4 as stated: after the first radio error of an operation the link makes
\* no further radio call for that operation.
C4_NoRadioCallAfterRadioError == ~hist.callAfterErr

\* C4 amended: a radio error ends the running attempt at once (no further
\* radio call in that attempt), and is then treated like any failed attempt:
\* the next attempt starts, and the error is returned to the caller only
\* when it was the MAX_RETRIES-th attempt that failed.
C4_RadioErrorEndsAttemptOnly ==
    /\ hist.errInTry => link.pc \in {"start", "ret"}
    /\ (link.pc = "ret" /\ ~link.ok /\ link.err = "RadioError") =>
            hist.tries = MAX_RETRIES /\ hist.errInTry

\* an operation that met a radio error and succeeded in a later attempt
C4_Witness == LinkReturnedOk /\ hist.radioErr /\ hist.callAfterErr

\* C5: one write_flash call transmits the write_flash command frame at most
\* once.
C5_WriteFlashFrameSentOnce ==
    bl.op = "write_flash" => hist.dataTx <= 1

\* C9: no response whose echoed (page, address) differs from the requested
\* ones is passed up for a read_flash: not by the link to
\* Bootloader::read_flash, and not by Bootloader::read_flash to its caller.
C9_ReadFlashNeverReturnsMismatch ==
    LET echoOk == /\ Len(link.answer) >= 7
                  /\ link.answer[4] + 256 * link.answer[5] = bl.page
                  /\ link.answer[6] + 256 * link.answer[7] = bl.address
    IN  /\ (LinkReturnedOk /\ bl.op = "read_flash") => echoOk
        /\ (bl.pc = "ret" /\ bl.op = "read_flash" /\ bl.res = "ok") =>
              /\ LinkReturnedOk /\ echoOk
              /\ bl.data = SubSeq(link.answer, 8, Len(link.answer))

\* a read_flash that returned a packet although a read response for other
\* coordinates was ACKed on the way
C9_Witness ==
    bl.pc = "ret" /\ bl.op = "read_flash" /\ bl.res = "ok" /\ hist.seenMismatch

\* C10: a read_flash whose answer is a read frame echoing other coordinates
\* than the requested ones ends with the stale-packet error.
C10_MismatchGivesStalePacket ==
    (/\ bl.pc = "ret" /\ bl.op = "read_flash"
     /\ IsMismatch(link, link.answer) /\ ~hist.radioErr) =>
        (bl.res = "err" /\ bl.err = "StalePacket")

\* C29: within one attempt of request / request_match_response, once the
\* request payload has been ACKed no packet transmitted in that attempt
\* carries the request payload again (every further packet is the filler);
\* the polling loop runs only after that ACK.
C29_OnlyFillerAfterAck ==
    link.kind \in {"request", "match"} =>
        /\ ~hist.dataAfterAck
        /\ link.pc = "poll" => link.got_initial_ack
        /\ PollPayload(link) = <<255>>

\* a request sent again in a later attempt, in which a poll after the ACK
\* brought the response
C29_Witness ==
    /\ LinkReturnedOk /\ link.kind = "request"
    /\ hist.viaPoll /\ hist.tries >= 2 /\ hist.dataTx >= 2

\* C30: when, in some attempt, an ACK delivers a response with the required
\* prefix (the request having been ACKed, the window not yet over), the
\* operation returns success with that very response; nothing that came
\* before it (attempts that failed, packets not ACKed, stale or empty
\* responses) changes that.
C30_ValidResponseIsReturned ==
    (link.kind \in {"request", "match"} /\ hist.validAcked) =>
        /\ link.pc \in {"poll", "ret"}
        /\ link.answer = hist.validBytes
        /\ ResponseValid(link)
        /\ link.pc = "ret" => link.ok

\* a request that returned the response a poll delivered, in a later
\* attempt than the first and after a read response for other coordinates
\* had been received
C30_Witness ==
    /\ LinkReturnedOk /\ link.kind = "request"
    /\ hist.viaPoll /\ hist.tries >= 2 /\ hist.seenMismatch
    /\ hist.radioErr

\* the candidate answer of link operation l has the prefix the operation
\* asks for
Satisfied(l) ==
    LET m == IF l.kind = "request" THEN Len(l.data) ELSE l.match_length
    IN  Len(l.answer) >= m /\ SubSeq(l.answer, 1, m) = SubSeq(l.data, 1, m)

\* C31: when the candidate response of request / request_match_response
\* satisfies the prefix predicate (as it does when the response that came
\* with the ACK of the request satisfies it), the next step returns it with
\* Ok and makes no radio call; send returns Ok at its first ACK; and an
\* operation that has returned makes no further radio call.
C31_ValidCandidateReturnsAtOnce ==
    [][/\ (link.pc = "poll" /\ Satisfied(link)) =>
            /\ link' = [link EXCEPT !.pc = "ret", !.ok = TRUE]
            /\ dev' = dev /\ hist' = hist
       /\ (link.kind = "send" /\ link.pc = "send" /\ hist'.acked) =>
            link' = [link EXCEPT !.pc = "ret", !.ok = TRUE]
       /\ link.pc = "ret" =>
            (dev' = dev /\ link'.pc \in {"ret", "start", "idle"})]_vars

\* a request returned the response that came with the ACK of its first
\* transmission
C31_Witness ==
    /\ LinkReturnedOk /\ link.kind = "request"
    /\ hist.validAcked /\ ~hist.viaPoll
    /\ hist.tries = 1 /\ hist.dataTx = 1

\* C32: the candidate response of request / request_match_response is at
\* every moment the payload of the last ACKed radio call of the running
\* attempt (empty when none was ACKed yet): a poll that is not ACKed leaves
\* it, an ACKed poll replaces it, also with an empty payload, and nothing
\* of an earlier attempt is kept; so the response returned with Ok is the
\* payload of the last ACKed radio call of the successful attempt.
C32_CandidateIsLastAckedPayload ==
    link.kind \in {"request", "match"} => link.answer = hist.lastAcked

\* in the first attempt a frame echoing other coordinates was ACKed and an
\* ACKed poll has replaced it with an empty payload
C32_Witness ==
    /\ link.kind = "request" /\ link.pc = "poll"
    /\ hist.tries = 1 /\ hist.seenMismatch /\ link.answer = <<>>

----------------------------------------------------------------------------
(* Properties of the flashing and reading engines, checked under SpecEngine *)

\* a device that answers every command at once over a radio that loses
\* nothing, and puts at least one data byte in every read response
Cooperating == ~env.lossy /\ ~env.delay /\ 0 \notin env.readLens

\* read(target, A, |I|) returned success after flash(target, A, I) did
ReadBackOfFlashedImage ==
    /\ eng.op = "read" /\ eng.pc = "ret" /\ eng.res = "ok"
    /\ eng.flashed /\ eng.target = eng.flash_target
    /\ eng.read_start = eng.start_address
    /\ eng.length = Len(eng.image)
    /\ Cooperating

ReadWithinCapacityOk ==
    /\ eng.op = "read" /\ eng.pc = "ret" /\ eng.res = "ok"
    /\ eng.read_start + eng.length <= FlashCap

ReadEndedOnEmptyPacket ==
    eng.op = "read" /\ eng.pc = "ret" /\ eng.emptyPacket

----------------------------------------------------------------------------
(* Properties of the flashing engine, checked under SpecFlash *)

\* C11: a flash whose start page start_address / page_size is below the
\* target's flash_start fails with an error, and no Bootloader command has
\* been issued for it: no packet went to the radio and the device's RAM
\* buffer and flash are as they were.
C11_BelowFlashStartFailsUntransmitted ==
    (/\ eng.op = "flash"
     /\ eng.start_address \div info[eng.target].page_size
            < info[eng.target].flash_start) =>
        /\ eng.pc = "ret" /\ eng.res = "err" /\ eng.err = "BeforeFlashStart"
        /\ opSeq = 0 /\ hist = NoHist /\ link = IdleLink
        /\ dev = InitDevWith(LongPageInfo)

\* a non-empty image refused for a start address inside the reserved pages
C11_Witness ==
    /\ eng.op = "flash" /\ eng.pc = "ret" /\ eng.err = "BeforeFlashStart"
    /\ Len(eng.image) > 0
    /\ eng.start_address > 0

\* the link holds a command frame of the running flash, and has handed it
\* to the radio at least once
FlashFrameTransmitted(op) ==
    /\ eng.op = "flash" /\ bl.op = op /\ bl.pc = "call"
    /\ hist.dataTx >= 1

\* the 16-bit field at bytes i, i + 1 of the frame the link holds
FrameField(i) == from_le_bytes(link.data[i], link.data[i + 1])

\* C12: no write_flash command transmitted by the flashing engine has
\* flash_page + n_pages above the target's n_flash_page.
C12_WriteFlashWithinFlash ==
    FlashFrameTransmitted("write_flash") =>
        FrameField(6) + FrameField(8) <= info[eng.target].n_flash_page

\* the running flash has issued the write_flash of a chunk
ChunkCommitIssued ==
    eng.op = "flash" /\ eng.pc = "f_wait" /\ bl.op = "write_flash" /\ bl.pc = "call"

\* C13: when the write_flash of a chunk is issued, the load_buffer calls of
\* that chunk have staged every chunk byte j (0 <= j < chunk_len) at buffer
\* coordinate (j div page_size, j mod page_size), each byte exactly once
\* and in increasing order of j; the device's RAM buffer holds them there.
C13_ChunkStagedAtItsCoordinates ==
    ChunkCommitIssued =>
        LET page_size == info[eng.target].page_size
        IN  /\ eng.loaded =
                  [j \in 1..eng.chunk_size |->
                      <<(j - 1) \div page_size, (j - 1) % page_size,
                        eng.image[eng.bytes_written + j]>>]
            /\ \A j \in 1..eng.chunk_size :
                  dev.buf[eng.target][j - 1] = eng.image[eng.bytes_written + j]

\* the commit of a chunk that fills every buffer page, each page by more
\* than one load_buffer
C13_Witness ==
    /\ ChunkCommitIssued
    /\ eng.chunk_size = BufCapOf(info[eng.target])
    /\ info[eng.target].page_size > MAX_LOAD_SIZE
    /\ info[eng.target].n_buff_page > 1

\* C14: every load_buffer command of the flashing engine carries between 1
\* and 25 payload bytes, addresses a buffer page below n_buff_page, and has
\* offset + payload length <= page_size.
C14_LoadBufferWithinPage ==
    (eng.op = "flash" /\ eng.pc = "p_wait") =>
        /\ eng.load_size \in 1..25
        /\ bl.op = "load_buffer"
        /\ link.data = load_buffer_command(eng.target, eng.buffer_page,
                                           eng.page_offset,
                                           SliceFrom(link.data, 7))
        /\ Len(link.data) - 7 = eng.load_size
        /\ FrameField(4) < info[eng.target].n_buff_page
        /\ FrameField(6) + eng.load_size <= info[eng.target].page_size

\* a load_buffer of the full 25 bytes, and one that ends a page begun by
\* an earlier load
C14_Witness ==
    /\ eng.op = "flash" /\ eng.pc = "p_wait" /\ hist.dataTx >= 1
    /\ \/ eng.load_size = 25
       \/ eng.page_offset = 25 /\ eng.buffer_page = 1

\* C15: every write_flash command of the flashing engine has buffer_page 0
\* and n_pages = ceil(chunk_len / page_size): n_pages * page_size >=
\* chunk_len > (n_pages - 1) * page_size, and 1 <= n_pages <= n_buff_page.
C15_WriteFlashCoversChunk ==
    ChunkCommitIssued =>
        LET page_size == info[eng.target].page_size
            n_pages == FrameField(8)
        IN  /\ FrameField(4) = 0
            /\ n_pages * page_size >= eng.chunk_size
            /\ (n_pages - 1) * page_size < eng.chunk_size
            /\ n_pages >= 1 /\ n_pages <= info[eng.target].n_buff_page
            /\ link.data = write_flash_command(eng.target, 0, eng.current_page, n_pages)

\* the commit of a chunk that ends one byte into its last page
C15_Witness ==
    /\ ChunkCommitIssued /\ hist.dataTx >= 1
    /\ eng.chunk_size = info[eng.target].page_size + 1
    /\ FrameField(8) = 2

\* the Bootloader call the running flash made last has returned a failure:
\* a link error, or a flash response that is not a success
ChunkCallFailed ==
    /\ eng.op = "flash" /\ bl.pc = "ret"
    /\ \/ bl.res # "ok"
       \/ bl.op = "write_flash" /\ (bl.done = 0 \/ bl.error \in {1, 2, 3})

\* C16: once a load_buffer or a write_flash of a chunk has failed, the flash
\* returns an error: the engine goes on to no further command (none is
\* issued after the failed one) and the progress callback is not invoked
\* for that chunk.
C16_FirstFailureEndsFlash ==
    /\ ChunkCallFailed =>
          \/ eng.pc \in {"p_wait", "f_wait"}
          \/ /\ eng.pc = "ret" /\ eng.res = "err" /\ eng.failed
             /\ eng.bytes_written + eng.chunk_size <= Len(eng.image)
             /\ \A k \in 1..Len(eng.progress) :
                   eng.progress[k][1] <= eng.bytes_written
    /\ (eng.op = "flash" /\ eng.failed) =>
          /\ ChunkCallFailed
          /\ eng.pc = "ret" /\ opSeq = eng.failSeq

\* a flash ended by a load_buffer that failed in the second chunk
C16_Witness ==
    /\ eng.op = "flash" /\ eng.pc = "ret" /\ eng.failed
    /\ bl.op = "load_buffer" /\ ~link.ok
    /\ Len(eng.progress) = 1

\* the running flash has dealt with the response its write_flash returned
WriteFlashResponseHandled ==
    /\ eng.op = "flash" /\ eng.pc \in {"f_loop", "c_loop", "p_loop", "ret"}
    /\ bl.op = "write_flash" /\ bl.pc = "ret" /\ bl.res = "ok"

\* C17: a chunk is committed exactly when the accepted write_flash response
\* has done # 0 and an error code that is 0 or unknown (>= 4); with done = 0,
\* or with error code 1, 2 or 3, the flash fails, with the kind of the code.
C17_CommittedIffDoneAndNoError ==
    WriteFlashResponseHandled =>
        LET committed == ~(eng.pc = "ret" /\ eng.res = "err")
        IN  /\ committed <=> (bl.done # 0 /\ bl.error \notin {1, 2, 3})
            /\ committed =>
                  /\ Len(eng.progress) > 0
                  /\ eng.progress[Len(eng.progress)][1] = eng.bytes_written
            /\ ~committed =>
                  /\ eng.err = "FlashFailed"
                  /\ eng.kind = (IF bl.error \in {1, 2, 3} THEN bl.error ELSE 0)

\* a chunk committed on a response with done # 0 and an unknown error code
C17_Witness ==
    /\ WriteFlashResponseHandled
    /\ bl.done # 0 /\ bl.error >= 4
    /\ eng.pc = "f_loop"

\* C18: the progress callback is invoked once per committed chunk with
\* (bytes_written, L): the k-th invocation reports the end of the k-th
\* chunk, so the values increase strictly and never exceed L; a successful
\* flash of a non-empty image ends with the invocation (L, L).
C18_ProgressPerCommittedChunk ==
    (eng.op = "flash" /\ eng.progress_callback) =>
        LET L == Len(eng.image)
            B == BufCapOf(info[eng.target])
            n == Len(eng.progress)
        IN  /\ \A k \in 1..n : eng.progress[k] = <<Min(k * B, L), L>>
            /\ eng.pc \in {"f_loop", "ret"} =>
                  eng.bytes_written = (IF n = 0 THEN 0 ELSE eng.progress[n][1])
            /\ (eng.pc = "ret" /\ eng.res = "ok" /\ L > 0) =>
                  /\ n = (L + B - 1) \div B
                  /\ eng.progress[n] = <<L, L>>

\* a successful flash of an image of more than one chunk
C18_Witness ==
    /\ eng.op = "flash" /\ eng.pc = "ret" /\ eng.res = "ok"
    /\ eng.progress_callback
    /\ Len(eng.progress) = 2
    /\ eng.progress[2] = <<Len(eng.image), Len(eng.image)>>

\* the number of the chunk that image byte b belongs to (the j-th byte of
\* an image is 16 + j) for chunks of buffer_size bytes
ChunkOfByte(b, buffer_size) == (b - 17) \div buffer_size

\* C33: the write_flash of a chunk is handed to the link only when
\* load_buffer calls that all returned Ok have carried every byte of the
\* chunk; and every load_buffer frame carries bytes of the chunk whose
\* number is the number of write_flash responses accepted as successful so
\* far, so that no load_buffer of chunk k+1 exists before the write_flash
\* of chunk k was answered with success.
C33_LoadsThenWriteThenNextLoads ==
    eng.op = "flash" =>
        LET buffer_size == BufCapOf(info[eng.target])
        IN  /\ eng.pc = "f_wait" =>
                  /\ link.data[3] = CMD_WRITE_FLASH
                  /\ [j \in 1..Len(eng.loaded) |-> eng.loaded[j][3]] =
                         SubSeq(eng.image, eng.bytes_written + 1,
                                eng.bytes_written + eng.chunk_size)
                  /\ eng.commits * buffer_size = eng.bytes_written
            /\ (link.pc # "idle" /\ link.data[3] = CMD_LOAD_BUFFER) =>
                  /\ Len(link.data) > 7
                  /\ \A i \in 8..Len(link.data) :
                        ChunkOfByte(link.data[i], buffer_size) = eng.commits

\* a load_buffer of the second chunk has been transmitted
C33_Witness ==
    /\ eng.op = "flash" /\ eng.pc = "p_wait"
    /\ eng.commits = 1 /\ hist.dataTx >= 1
    /\ link.data[3] = CMD_LOAD_BUFFER

\* C34: the write_flash commands of one flash cover contiguous page ranges
\* in increasing order: the first has flash_page = start_address /
\* page_size, every later one has the flash_page of the one before plus
\* its n_pages, and every one has n_pages >= 1.
C34_WriteFlashPagesContiguous ==
    eng.op = "flash" =>
        /\ \A i \in 1..Len(eng.writes) :
              /\ eng.writes[i][2] >= 1
              /\ eng.writes[i][1] =
                    (IF i = 1
                     THEN eng.start_address \div info[eng.target].page_size
                     ELSE eng.writes[i - 1][1] + eng.writes[i - 1][2])
        /\ eng.pc = "f_wait" =>
              /\ eng.writes # <<>>
              /\ link.data = write_flash_command(
                                 eng.target, 0,
                                 eng.writes[Len(eng.writes)][1],
                                 eng.writes[Len(eng.writes)][2])

\* a flash of two chunks from an address one byte into a page has returned
C34_Witness ==
    /\ eng.op = "flash" /\ eng.pc = "ret" /\ eng.res = "ok"
    /\ Len(eng.writes) = 2
    /\ eng.start_address % info[eng.target].page_size = 1

----------------------------------------------------------------------------
(* Properties of argument validation, checked under SpecCalls *)

\* C19: request_match_response called with match_length > len(data) makes
\* no radio call at all, and fails with an error.
C19_LongMatchLengthFailsWithoutRadio ==
    (/\ link.kind = "match" /\ link.pc # "idle"
     /\ link.match_length > Len(link.data)) =>
        /\ ~hist.called
        /\ link.pc \in {"start", "ret"}
        /\ link.pc = "ret" => (~link.ok /\ link.err = "InvalidMatchLength")

\* such a call has returned, while the device holds a pending response
C19_Witness ==
    /\ link.kind = "match" /\ link.pc = "ret"
    /\ link.match_length > Len(link.data)
    /\ ~link.ok
    /\ dev.q # <<>>

\* C20: Bootloader::load_buffer called with more than 25 data bytes fails
\* with an error and makes no radio call; with 25 bytes or fewer, the frame
\* it hands to the radio is exactly
\* [0xFF, target, 0x14, page LE, offset LE, data].
C20_LoadBufferFrameOrRefusal ==
    bl.op = "load_buffer" =>
        IF Len(bl.arg) > 25
        THEN /\ bl.pc = "ret" /\ bl.res = "err" /\ bl.err = "DataTooLarge"
             /\ link = IdleLink
             /\ ~hist.called
        ELSE /\ link.kind = "send"
             /\ link.data = <<255, bl.target, 20,
                              bl.page % 256, bl.page \div 256,
                              bl.address % 256, bl.address \div 256>> \o bl.arg

\* a load_buffer of 25 bytes whose frame went to the radio, for a page and
\* an address above 255
C20_Witness ==
    /\ bl.op = "load_buffer" /\ Len(bl.arg) = 25
    /\ bl.page > 255 /\ bl.address = 0
    /\ hist.dataTx >= 1

----------------------------------------------------------------------------
(* Properties of the command layer's decoding, checked under SpecCommands *)

\* C25: reset, all_off, sys_off and sys_on return success whatever the
\* link's send returned, also when no packet was ACKed and send failed
\* after all its attempts; the frame they send is [0xFF, target, cmd].
C25_FireAndForgetSwallowsErrors ==
    bl.op \in FireAndForget =>
        /\ link.kind = "send"
        /\ link.data = <<255, bl.target,
                         CASE bl.op = "reset" -> 240 [] bl.op = "all_off" -> 1
                           [] bl.op = "sys_off" -> 2 [] bl.op = "sys_on" -> 3>>
        /\ bl.pc = "ret" => bl.res = "ok"

\* a reset that returned success though none of its packets was ACKed in
\* any of the MAX_RETRIES attempts
C25_Witness ==
    /\ bl.op = "reset" /\ bl.pc = "ret" /\ bl.res = "ok"
    /\ ~link.ok /\ link.err = "NoAck"
    /\ ~hist.acked /\ hist.tries = MAX_RETRIES

\* C26: when the link accepted a response shorter than the codec minimum
\* (fewer than 21 info bytes after [0xFF, target, 0x10]; fewer than 2
\* bytes after the echo of write_flash / flash_status), the command fails
\* with an error value.
C26_ShortResponseGivesError ==
    (/\ bl.pc = "ret" /\ LinkReturnedOk
     /\ \/ bl.op = "get_info" /\ Len(link.answer) < 3 + 21
        \/ bl.op \in {"write_flash", "flash_status"} /\ Len(link.answer) < 3 + 2)
        => bl.res = "err"

\* C27: get_vbat fails with an error for every accepted response shorter
\* than 6 bytes.
C27_ShortVbatGivesError ==
    (/\ bl.pc = "ret" /\ bl.op = "get_vbat" /\ LinkReturnedOk
     /\ Len(link.answer) < 6)
        => bl.res = "err"

\* C28: get_info returns exactly the field values the device encoded in
\* the response [0xFF, target, 0x10, page_size LE, n_buff_page LE,
\* n_flash_page LE, flash_start LE, cpu_id (12 bytes), version].
C28_InfoRoundTrip ==
    (bl.op = "get_info" /\ bl.pc = "ret" /\ bl.res = "ok") =>
        LET r == dev.report[bl.target]
        IN  /\ link.answer = InfoBytes(bl.target, r)
            /\ bl.info.page_size = r.page_size
            /\ bl.info.n_buff_page = r.n_buff_page
            /\ bl.info.n_flash_page = r.n_flash_page
            /\ bl.info.flash_start = r.flash_start
            /\ bl.info.cpu_id = r.cpu_id
            /\ bl.info.version = r.version

\* the documented response 00 04 | 0A 00 | 00 04 | 80 00 | 12 x 00 | 10
\* decoded as 1024, 10, 1024, 128, version 0x10
C28_Witness ==
    /\ bl.op = "get_info" /\ bl.pc = "ret" /\ bl.res = "ok"
    /\ SubSeq(link.answer, 4, 11) = <<0, 4, 10, 0, 0, 4, 128, 0>>
    /\ link.answer[24] = 16
    /\ bl.info.page_size = 1024 /\ bl.info.n_buff_page = 10
    /\ bl.info.n_flash_page = 1024 /\ bl.info.flash_start = 128
    /\ bl.info.version = 16

----------------------------------------------------------------------------
(* Properties of the facade, checked under SpecFacade *)

\* the facade operation running or returned last made no Bootloader call
\* and no link call: the last command is still the constructor's
NoCommandSinceEntry ==
    /\ opSeq = eng.entrySeq
    /\ bl.op = "get_info" /\ bl.pc = "ret"
    /\ link.pc = "ret" /\ link.data = get_info_command(TARGET_STM32)

\* C21: CFLoader::read_flash with length = 0 (and a valid target) returns
\* an empty output successfully and makes no radio call.
C21_ZeroLengthReadIsEmpty ==
    (eng.op = "read" /\ eng.length = 0 /\ eng.target \in {255, 254}) =>
        /\ NoCommandSinceEntry
        /\ eng.pc \in {"r_loop", "ret"}
        /\ eng.pc = "ret" => (eng.res = "ok" /\ eng.result = <<>>)

\* a read of length 0 from the middle of flash has returned
C21_Witness ==
    /\ eng.op = "read" /\ eng.length = 0 /\ eng.target = 255
    /\ eng.pc = "ret" /\ eng.read_start > 0

\* C22: flash_image and read_flash called with a target id other than 0xFF
\* and 0xFE fail with an error and transmit nothing; every command frame
\* the facade hands to the link or to the radio begins with 0xFF followed
\* by 0xFF or 0xFE.
C22_InvalidTargetFailsUntransmitted ==
    /\ (eng.op \in {"flash", "read"} /\ eng.target \notin {255, 254}) =>
          /\ eng.pc = "ret" /\ eng.res = "err" /\ eng.err = "InvalidTarget"
          /\ NoCommandSinceEntry
    /\ link.pc # "idle" =>
          (link.data[1] = 255 /\ link.data[2] \in {255, 254})
    /\ \A i \in 1..Len(hist.frames) :
          hist.frames[i][1] = 255 /\ hist.frames[i][2] \in {255, 254}

\* a flash of a non-empty image refused for its target id
C22_Witness ==
    /\ eng.op = "flash" /\ eng.target = 253 /\ eng.image # <<>>
    /\ eng.pc = "ret" /\ eng.res = "err"

\* C23: CFLoader::new calls get_info for the nRF51 and then for the STM32,
\* and fails on the first failure: the STM32 get_info is issued only after
\* the nRF51 one returned its info record; a facade exists only when both
\* returned, and then holds the two records; when the first get_info
\* fails no second command is issued.
C23_NewFailsOnFirstFailure ==
    /\ eng.created => info = dev.report
    /\ eng.op = "new" =>
          /\ bl.op = "get_info" /\ opSeq \in {1, 2}
          /\ bl.target = (IF opSeq = 1 THEN 254 ELSE 255)
          /\ opSeq = 2 => eng.nrf51_info = dev.report[254]
          /\ eng.created <=> (eng.pc = "ret" /\ eng.res = "ok")
          /\ eng.created => (opSeq = 2 /\ bl.pc = "ret" /\ bl.res = "ok")
          /\ (eng.pc = "ret" /\ eng.res # "ok") =>
                (bl.pc = "ret" /\ bl.res = "err"
                 /\ info = [t \in {255, 254} |-> NoInfoPacket])

\* a constructor that failed on the first get_info, after all its attempts
C23_Witness ==
    /\ eng.op = "new" /\ eng.pc = "ret" /\ eng.res = "err"
    /\ bl.target = 254 /\ opSeq = 1
    /\ hist.tries = MAX_RETRIES

\* C24: reset_to_firmware hands only two command frames to the radio,
\* [0xFF, 0xFE, 0xFF] and then [0xFF, 0xFE, 0xF0, 0x01]; the second is
\* transmitted only after a transmission of the first was ACKed.
C24_ResetInitThenReset ==
    eng.op = "reset_to_firmware" =>
        /\ hist.frames \in {<<>>, <<<<255, 254, 255>>>>,
                             <<<<255, 254, 255>>, <<255, 254, 240, 1>>>>}
        /\ link.data \in {<<255, 254, 255>>, <<255, 254, 240, 1>>}
        /\ Len(hist.frames) = 2 => <<255, 254, 255>> \in hist.ackedFrames
        /\ (eng.pc = "ret" /\ eng.res = "ok") =>
              hist.ackedFrames = {<<255, 254, 255>>, <<255, 254, 240, 1>>}

\* a reset_to_firmware whose reset frame has been transmitted
C24_Witness ==
    /\ eng.op = "reset_to_firmware" /\ eng.pc = "x_reset"
    /\ Len(hist.frames) = 2
    /\ hist.dataTx >= 1

----------------------------------------------------------------------------
(* Properties of the reading engine, checked under SpecRead *)

\* engine state e, with link state l and device state d, is a state of a
\* read whose output is what the flash holds from the start address on and
\* whose request, if one is waiting, is for the address after the output
ReadInOrder(e, l, d) ==
    LET page_size == info[e.target].page_size
        addr == e.read_start + Len(e.result)
    IN  /\ e.bytes_read = Len(e.result)
        /\ Len(e.result) <= e.length
        /\ e.read_address = addr
        /\ e.pc = "r_wait" =>
              l.data = read_flash_command(e.target, addr \div page_size,
                                          addr % page_size)
        /\ \A i \in 1..Len(e.result) :
              e.result[i] = d.flash[e.target][e.read_start + i - 1]

\* C35: a read_flash request of the reading engine is issued at
\* (addr div page_size, addr mod page_size) with addr = start_address +
\* number of bytes collected; every packet adds its first n data bytes with
\* 1 <= n <= min(27, length - bytes collected); the output is, in order,
\* what the flash holds from start_address on, and is never longer than
\* length.
C35_ReadAddressesAndPrefixes ==
    [][/\ eng'.op = "read" => ReadInOrder(eng', link', dev')
       /\ (eng.pc = "r_wait" /\ eng'.pc = "r_loop") =>
            LET n == Len(eng'.result) - Len(eng.result)
            IN  /\ n >= 1
                /\ n <= Min(27, eng.length - Len(eng.result))
                /\ eng'.result = eng.result \o SubSeq(bl.data, 1, n)]_vars

\* of a packet with more than 27 data bytes the first 27 were taken, in a
\* read that began on the last byte of a page
C35_Witness ==
    /\ eng.op = "read" /\ eng.pc = "r_loop"
    /\ Len(bl.data) > MAX_READ_SIZE /\ Len(eng.result) = MAX_READ_SIZE
    /\ eng.length > MAX_READ_SIZE
    /\ eng.read_start = LongPage - 1

----------------------------------------------------------------------------
(* Properties of one request, checked under SpecSingle *)

\* C36: in one request / request_match_response the request payload is
\* ACKed at most once in each attempt, so at most MAX_RETRIES times in
\* all; and one write_flash call delivers the write_flash command to the
\* device at most MAX_RETRIES times.
C36_CommandDeliveredAtMostMaxRetriesTimes ==
    link.kind \in {"request", "match"} =>
        /\ hist.dataAcks <= hist.tries
        /\ hist.dataAcks <= MAX_RETRIES
        /\ bl.op = "write_flash" => hist.dataRx <= MAX_RETRIES

\* the ACKs alone: at most one in each attempt
AcksAtMostOncePerAttempt ==
    link.kind \in {"request", "match"} =>
        (hist.dataAcks <= hist.tries /\ hist.dataAcks <= MAX_RETRIES)

----------------------------------------------------------------------------
(* Properties of the decoding of read responses, checked under SpecCodec *)

\* C37: Bootloader::read_flash and Bootloader::read_buffer never abort in
\* their codec: every response their request returns with Ok starts with
\* the 7 bytes of the request, so that response[2..] has the 5 bytes
\* FlashReadPacket::from_bytes / BufferReadPacket::from_bytes ask for.
C37_ReadCodecsNeverAbort ==
    bl.op \in {"read_flash", "read_buffer"} =>
        /\ bl.res # "panic"
        /\ LinkReturnedOk =>
              (Len(link.answer) >= 7 /\ SubSeq(link.answer, 1, 7) = link.data)

\* a read_buffer decoded a response that arrived cut to the 7 bytes of the
\* echo
C37_Witness ==
    /\ bl.op = "read_buffer" /\ bl.pc = "ret" /\ bl.res = "ok"
    /\ Len(link.answer) = 7 /\ bl.data = <<>>

----------------------------------------------------------------------------
(* Properties of the page arithmetic, checked under SpecWide *)

\* C38: the page number that flash compares against flash_start and that
\* write_flash / read_flash transmit is floor(address / page_size) for
\* every address: a flash is refused as before flash_start only when
\* floor(start_address / page_size) < flash_start, and the page bytes of
\* the frames hold floor(address / page_size).
C38_PageNumberIsFloorOfAddress ==
    LET page_size == info[eng.target].page_size
    IN  /\ (eng.op = "flash" /\ eng.err = "BeforeFlashStart") =>
              eng.start_address \div page_size < info[eng.target].flash_start
        /\ (eng.op = "flash" /\ eng.pc = "f_wait") =>
              FrameField(6) = eng.current_address \div page_size
        /\ (eng.op = "read" /\ eng.pc = "r_wait") =>
              FrameField(4) = eng.read_address \div page_size

----------------------------------------------------------------------------
(* Properties of flash against the reported info record, checked under     *)
(* SpecZero                                                                *)

\* C39: with a device that answers every command, flash terminates for
\* every image and every info record the device reported, a page_size or
\* an n_buff_page of 0 included: it never aborts, every write_flash covers
\* at least one byte of the image, so that there are never more of them
\* than bytes, a flash that returns has issued ceil(L / (page_size *
\* n_buff_page)) of them, and the flash of the empty image returns success
\* without a radio call.
C39_FlashTerminatesForEveryInfoRecord ==
    LET L == Len(eng.image)
        buffer_size == info[eng.target].page_size * info[eng.target].n_buff_page
    IN  eng.op = "flash" =>
          /\ eng.res # "panic"
          /\ eng.commits <= L
          /\ (eng.pc = "ret" /\ buffer_size > 0) =>
                /\ eng.res = "ok"
                /\ eng.commits = (L + buffer_size - 1) \div buffer_size
          /\ (eng.pc = "ret" /\ L = 0) =>
                (eng.res = "ok" /\ opSeq = 0 /\ link.pc = "idle")

====
